---- MODULE Spec2Model ----
(***************************************************************************)
(* Notification bridge: the platform listeners (Linux D-Bus, Windows       *)
(* WinRT polling) as asyncio state machines.  One action is one run of a   *)
(* coroutine from a suspension point (an await that yields) to the next.   *)
(***************************************************************************)
EXTENDS Integers, Sequences, FiniteSets, TLC

\* ---------------------------------------------------------------- bounds
MaxCalls == 4
MaxCycles == 3
MaxMsgs == 2
MaxTicks == 1
MaxForwards == 2
MaxSelects == 3

\* ------------------------------------------------------ program constants
\* windows.py:113  if len(self._seen_ids) > 1000
SeenLimit == 1000

VARIABLES
  platform,    \* sys.platform, read by get_listener
  running,     \* listener._running
  callback,    \* listener._callback is not None
  op,          \* the caller's operation in progress: "idle" | "start" | "stop"
  oppc,        \* the await at which that operation is suspended
  lastCall,    \* the last completed operation: "none" | "start" | "stop"
  lastResult,  \* how it ended: "none" | "ok" | "soft_fail" | "raised"
  started,     \* "no" | "ok" | "soft": what the last start that returned left, cleared by stop
  ncalls,      \* start() and stop() calls made so far
  seen_ids,    \* WindowsListener._seen_ids
  poll_task,   \* WindowsListener._poll_task (0 is None)
  tasks,       \* the poll tasks created so far
  ntasks,
  ncycles,     \* queries issued so far
  delivered,   \* callback invocations, in the order they began
  bus,         \* LinuxListener._bus (0 is None)
  buses,       \* the bus connections made so far
  nbuses,
  procs,       \* the _process_notification tasks created so far
  nmsgs,       \* bus messages handed to a message handler so far
  access_requests, \* request_access_async calls of the caller's current or last operation
  access_status,   \* the status the last of them returned ("none": none has returned)
  wired,       \* the callback is server.on_notification, which awaits forwarder.forward
  clock,       \* the last value datetime.now(timezone.utc) returned, in microseconds of the day
  forwards,    \* the forward() calls, in the order they began
  settings,    \* the Settings the forwarder was built with
  selected,    \* what the get_listener calls returned, in the order they were made
  consumed,    \* bus messages for which the message handler returned True
  listed,      \* history: the native ids some listing has contained
  steady,      \* history: those every listing since their first one contained
  owed,        \* history: new ids a raising callback made the loop skip, not listed since
  due,         \* history: the owed ids the last listing contained, and its cycle
  converted,   \* what the _convert_notification calls made on their own returned
  aborted      \* an exception was thrown into lifespan at its yield

vars == <<platform, running, callback, op, oppc, lastCall, lastResult, started,
          ncalls, seen_ids, poll_task, tasks, ntasks, ncycles,
          delivered, bus, buses, nbuses, procs, nmsgs,
          access_requests, access_status, wired, clock, forwards,
          settings, selected, consumed, listed, steady, owed, due, converted,
          aborted>>

callerVars == <<op, oppc, lastCall, lastResult, started, ncalls>>
winVars == <<seen_ids, poll_task, tasks, ntasks, ncycles, access_requests,
            access_status>>
linuxVars == <<bus, buses, nbuses, procs, nmsgs>>
fwdVars == <<wired, clock, forwards>>
envVars == <<settings, selected, converted, aborted>>
histVars == <<listed, steady, owed, due>>
otherVars == <<settings, selected, consumed, listed, steady, owed, due, converted,
               aborted>>

Platforms == {"linux", "win32"}

None == [kind |-> "none"]

Min(a, b) == IF a < b THEN a ELSE b

\* ------------------------------------------------------------ the caller
\* The caller has stopped the listener and has not called start() since.
StoppedNow == op = "idle" /\ lastCall = "stop"

\* An operation of the caller ends.
Return(call, result) ==
  /\ op' = "idle"
  /\ oppc' = ""
  /\ lastCall' = call
  /\ lastResult' = result

\* -------------------------------------------------------------- forwarder
\* Settings(): central_context_url, bucket_name and port as the environment
\* leaves them.
DefaultSettings ==
  [central_context_url |-> "http://localhost:9000", bucket_name |-> "notifications",
   port |-> 9001]

\* The settings a forwarder is built with: the defaults, or a URL and a bucket
\* taken from the environment.
SettingsChoices ==
  {DefaultSettings,
   [central_context_url |-> "http://context.test:8000",
    bucket_name |-> "test-notifications", port |-> 9001]}

\* The fields of NotificationPayload, in the order the model declares them
\* (received_at, a reading of the clock by the listener, is left out of the
\* payloads here).
PayloadFields ==
  <<"app_name", "summary", "body", "icon", "replaces_id", "actions", "hints",
    "timeout">>

\* model_dump_json: the members of the JSON object, one per field, in order.
ModelDumpJson(payload) ==
  [k \in 1 .. Len(PayloadFields) |->
     [key |-> PayloadFields[k], value |-> payload[PayloadFields[k]]]]

\* json.loads of such a text: the mapping from each key to the value of the
\* last member that has it.
JsonLoads(content) ==
  LET keys == {content[k].key : k \in 1 .. Len(content)}
      last(key) == CHOOSE k \in 1 .. Len(content) :
                     /\ content[k].key = key
                     /\ \A j \in (k + 1) .. Len(content) : content[j].key # key
  IN [key \in keys |-> content[last(key)].value]

\* The characters of the app names that occur, one string per character.
Chars(s) ==
  CASE s = "TestApp" -> <<"T", "e", "s", "t", "A", "p", "p">>
    [] s = "Chat" -> <<"C", "h", "a", "t">>
    [] s = "Mail" -> <<"M", "a", "i", "l">>
    [] s = "Unknown" -> <<"U", "n", "k", "n", "o", "w", "n">>
    [] s = "Odd" -> <<"O", "d", "d">>
    [] s = "Short" -> <<"S", "h", "o", "r", "t">>
    [] s = "My App (v2.0)" ->
         <<"M", "y", " ", "A", "p", "p", " ", "(", "v", "2", ".", "0", ")">>
    [] OTHER -> <<>>

\* The characters str.isalnum accepts, among those of the model.
Alnum ==
  {"a", "b", "c", "d", "e", "f", "g", "h", "i", "j", "k", "l", "m", "n", "o", "p",
   "q", "r", "s", "t", "u", "v", "w", "x", "y", "z",
   "A", "B", "C", "D", "E", "F", "G", "H", "I", "J", "K", "L", "M", "N", "O", "P",
   "Q", "R", "S", "T", "U", "V", "W", "X", "Y", "Z",
   "0", "1", "2", "3", "4", "5", "6", "7", "8", "9"}

\* safe_app_name with the other characters left out instead of replaced.
SafeAppNameDropsOthers(app_name) ==
  SelectSeq(Chars(app_name), LAMBDA c : c \in Alnum)

\* safe_app_name
SafeAppName(app_name) ==
  [i \in 1 .. Len(Chars(app_name)) |->
     IF Chars(app_name)[i] \in Alnum THEN Chars(app_name)[i] ELSE "_"]

DigitChars == <<"0", "1", "2", "3", "4", "5", "6", "7", "8", "9">>

\* n in decimal, zero-padded to w digits, as strftime writes a field.
RECURSIVE Digits(_, _)
Digits(n, w) ==
  IF w = 0 THEN <<>>
  ELSE Digits(n \div 10, w - 1) \o <<DigitChars[(n % 10) + 1]>>

\* The first value the clock returns: 00:00:59.999999 of the day, in
\* microseconds, so that the next microsecond changes every time field.
ClockStart == (0 * 3600 + 0 * 60 + 59) * 1000000 + 999999

\* The day of the run as %Y%m%d writes it.
DateChars == <<"2", "0", "2", "4", "0", "1", "1", "5">>

\* strftime("%Y%m%d_%H%M%S_%f") of the instant `now` (microseconds of the day).
Timestamp(now) ==
  LET sec == now \div 1000000
  IN DateChars \o <<"_">>
       \o Digits(sec \div 3600, 2) \o Digits((sec % 3600) \div 60, 2)
       \o Digits(sec % 60, 2)
       \o <<"_">> \o Digits(now % 1000000, 6)

\* name = f"{safe_app_name}_{timestamp}"
DerivedName(app_name, now) == SafeAppName(app_name) \o <<"_">> \o Timestamp(now)

\* What the await of client.post ends with: a response with a status code, an
\* httpx.RequestError, or another exception.
Statuses == {200, 201, 404, 500}
NoReply == [kind |-> "none", status |-> 0]
Replies ==
  {[kind |-> "response", status |-> st] : st \in Statuses}
    \cup {[kind |-> "request_error", status |-> 0], [kind |-> "error", status |-> 0]}

\* Forward with a second POST after a response of status 500 or more.
ForwardRetriesServerError(reply) ==
  IF reply.kind = "response"
  THEN [result |-> "returned", posts |-> IF reply.status >= 500 THEN 2 ELSE 1,
        log |-> IF reply.status = 201 THEN "info" ELSE "warning"]
  ELSE IF reply.kind = "request_error"
  THEN [result |-> "returned", posts |-> 1, log |-> "error"]
  ELSE [result |-> "raised", posts |-> 1, log |-> "none"]

\* Forward with the except clause for httpx.RequestError left out.
ForwardPropagatesRequestError(reply) ==
  IF reply.kind = "response"
  THEN [result |-> "returned", posts |-> 1,
        log |-> IF reply.status = 201 THEN "info" ELSE "warning"]
  ELSE [result |-> "raised", posts |-> 1, log |-> "none"]

\* forward() from the end of the await of client.post: how it ends, the POST
\* requests it has issued by then, and the level it logs at.
Forward(reply) ==
  IF reply.kind = "response"
  THEN [result |-> "returned", posts |-> 1,
        log |-> IF reply.status = 201 THEN "info" ELSE "warning"]
  ELSE IF reply.kind = "request_error"
  THEN [result |-> "returned", posts |-> 1, log |-> "error"]
  ELSE [result |-> "raised", posts |-> 1, log |-> "none"]

\* The request of forward(): the URL and the JSON body of client.post.
Request(payload, name) ==
  [method |-> "POST",
   url |-> <<settings.central_context_url, "/content">>,
   json |-> [content |-> ModelDumpJson(payload),
             bucket |-> settings.bucket_name,
             name |-> name,
             content_type |-> "application/json",
             description |-> <<"Notification from ", payload.app_name, ": ",
                               payload.summary>>]]

\* The lifespan of the bridge service has left its `async with` block, which
\* closes the HTTP client: it does so in the step in which its stop() call
\* returns (nothing is awaited between the two), in which its start() call
\* raises, or in which an exception is thrown in at its yield.  A forwarder
\* used outside the lifespan keeps its client open.
ClientClosed ==
  \/ aborted
  \/ /\ op = "idle"
     /\ \/ lastCall = "stop"
        \/ lastCall = "start" /\ lastResult = "raised"

\* client.post on a closed client raises before anything is sent or awaited,
\* and the exception is no httpx.RequestError.
ClosedReply == [kind |-> "error", status |-> 0]

\* NewForward with the body of the notification in the description, in the
\* place of its summary.
NewForwardDescribesBody(payload, now) ==
  [payload |-> payload, at |-> now, name |-> DerivedName(payload.app_name, now),
   request |-> [Request(payload, DerivedName(payload.app_name, now))
                  EXCEPT !.json.description =
                    <<"Notification from ", payload.app_name, ": ", payload.body>>],
   closed |-> ClientClosed,
   pc |-> IF ClientClosed THEN Forward(ClosedReply).result ELSE "post",
   reply |-> IF ClientClosed THEN ClosedReply ELSE NoReply,
   posts |-> 1, log |-> "none"]

\* A forward() call suspended at its await of client.post; on a closed client
\* the call has ended already, with the exception of client.post.
NewForward(payload, now) ==
  [payload |-> payload, at |-> now, name |-> DerivedName(payload.app_name, now),
   request |-> Request(payload, DerivedName(payload.app_name, now)),
   closed |-> ClientClosed,
   pc |-> IF ClientClosed THEN Forward(ClosedReply).result ELSE "post",
   reply |-> IF ClientClosed THEN ClosedReply ELSE NoReply,
   posts |-> 1, log |-> "none"]

\* on_notification(payload): forward() reads the clock, derives the name and
\* issues the POST.  At most MaxForwards calls are followed.
ForwardCall(payload) ==
  IF wired
  THEN /\ Len(forwards) < MaxForwards
       /\ forwards' = Append(forwards, NewForward(payload, clock))
  ELSE UNCHANGED forwards

\* The forward() call number i resumes from its await and ends as `result`.
ForwardEnd(i, result) ==
  IF wired
  THEN \E reply \in Replies :
         /\ Forward(reply).result = result
         /\ forwards' = [forwards EXCEPT ![i].pc = result, ![i].reply = reply,
                                         ![i].posts = Forward(reply).posts,
                                         ![i].log = Forward(reply).log]
  ELSE UNCHANGED forwards

\* CancelledError is thrown into forward() number i at its await: no except
\* clause of forward() catches it.
ForwardCancelled(i) ==
  IF wired
  THEN forwards' = [forwards EXCEPT ![i].pc = "cancelled"]
  ELSE UNCHANGED forwards

\* The last callback invocation made by task (or processing task) t.
InvocationOf(t) ==
  CHOOSE i \in 1 .. Len(delivered) :
    /\ delivered[i].task = t
    /\ \A j \in (i + 1) .. Len(delivered) : delivered[j].task # t

\* ------------------------------------------------------ Windows listener
\* The toast notifications the platform can list, by native id.  display is
\* app_info.display_info.display_name ("<raise>" when reading it raises), texts
\* the inner texts of the <text> nodes (textsOk false when reading them raises),
\* valid whether NotificationPayload accepts the fields.
BulkSize == SeenLimit - 1
BulkIds == 11 .. (10 + BulkSize)
Notif(id) ==
  IF id = 1 THEN [id |-> 1, display |-> "Mail", textsOk |-> TRUE, raisesAt |-> 0,
                  texts |-> <<"Subject", "Text">>, valid |-> TRUE]
  ELSE IF id = 2 THEN [id |-> 2, display |-> "<raise>", textsOk |-> FALSE,
                       raisesAt |-> 1, texts |-> <<>>, valid |-> TRUE]
  ELSE [id |-> id, display |-> "", textsOk |-> TRUE, raisesAt |-> 0,
        texts |-> <<"T">>, valid |-> FALSE]

\* The listings get_notifications_async can return.
BulkSeq == [i \in 1 .. BulkSize |-> 10 + i]
Listings == << <<>>, <<1>>, <<1, 2>>, <<3>>, BulkSeq, BulkSeq \o <<2>>, <<1, 2, 3>> >>
\* The listings every specification draws from; the last one, with two ids
\* after the first, is drawn only where the history of the listings is kept.
CommonListings == 1 .. 6
ListingIds(L) == {L[m] : m \in 1 .. Len(L)}
\* The ids of listing number l.
IdSets == [l \in 1 .. Len(Listings) |-> ListingIds(Listings[l])]

\* A text node that is kept: `if node and node.inner_text`.
HasInnerText(text) == text # ""

\* _convert_notification.  The text nodes without inner text are passed over;
\* summary and body are assigned after the loop over the nodes, so an
\* exception anywhere in the extraction leaves both empty.
ConvertNotification(n) ==
  LET app_name == IF n.display \in {"<raise>", ""} THEN "Unknown" ELSE n.display
      texts == SelectSeq(n.texts, HasInnerText)
      summary == IF n.textsOk /\ Len(texts) > 0 THEN texts[1] ELSE ""
      body == IF n.textsOk /\ Len(texts) > 1 THEN texts[2] ELSE ""
  IN IF n.valid
     THEN [kind |-> "payload", app_name |-> app_name, summary |-> summary,
           body |-> body, icon |-> "", replaces_id |-> 0, actions |-> <<>>,
           hints |-> [windows_id |-> n.id], timeout |-> -1]
     ELSE None

\* The native ids whose conversion yields a payload.
NativeIds == {1, 2, 3} \cup BulkIds
Convertible == {id \in NativeIds : ConvertNotification(Notif(id)) # None}

\* Invoked with the test against the seen set left out.
InvokedWithoutSeenTest(seen, L, i, k, cb) ==
  /\ L[k] \in Convertible
  /\ cb
  /\ \A m \in i .. (k - 1) : L[m] # L[k]

\* The k-th notification of listing L reaches the callback when the for loop,
\* entered at position i with the seen set `seen`, comes to it: its id is not
\* in the seen set (nor was added to it earlier in this loop), its conversion
\* yields a payload and a callback is set.
Invoked(seen, L, i, k, cb) ==
  /\ L[k] \in Convertible
  /\ cb
  /\ L[k] \notin seen
  /\ \A m \in i .. (k - 1) : L[m] # L[k]

\* ScanFrom with the id of a notification added to the seen set after its
\* callback has returned.
ScanFromMarksAfter(seen, L, i, cb) ==
  LET hits == {k \in i .. Len(L) : Invoked(seen, L, i, k, cb)}
      k == IF hits = {} THEN Len(L) + 1
           ELSE CHOOSE x \in hits : \A y \in hits : x <= y
  IN [idx |-> k, call |-> k <= Len(L),
      seen |-> seen \cup {L[m] : m \in i .. Min(k - 1, Len(L))}]

\* The for loop of one poll cycle from position i up to its next await of the
\* callback (call is true, idx the position) or to its end (idx = Len(L) + 1).
ScanFrom(seen, L, i, cb) ==
  LET hits == {k \in i .. Len(L) : Invoked(seen, L, i, k, cb)}
      k == IF hits = {} THEN Len(L) + 1
           ELSE CHOOSE x \in hits : \A y \in hits : x <= y
  IN [idx |-> k, call |-> k <= Len(L),
      seen |-> seen \cup {L[m] : m \in i .. Min(k, Len(L))}]

\* Cleanup with the seen set emptied.
CleanupClearsAll(seen, L) ==
  IF Cardinality(seen) > SeenLimit THEN {} ELSE seen

\* Cleanup with the threshold off by one.
CleanupAtLimit(seen, L) ==
  IF Cardinality(seen) >= SeenLimit THEN ListingIds(L) ELSE seen

\* The clean-up at the end of the for loop.
Cleanup(seen, L) ==
  IF Cardinality(seen) > SeenLimit THEN ListingIds(L) ELSE seen

\* A poll task.  listing, idx: the listing of its cycle and its position in
\* the for loop; cycle: the number of its cycle; exc: its last cycle ended in
\* the except clause; k, newc: how many ids of the listing were not in the seen
\* set when the listing arrived, and which of those convert to a payload;
\* late: the listing arrived after a stop() not followed by a start(); at: the
\* await at which it was cancelled.
NoTask == [pc |-> "none", cancel |-> FALSE, listing |-> 0, idx |-> 0, cycle |-> 0,
           exc |-> FALSE, k |-> 0, newc |-> {}, late |-> FALSE, at |-> ""]
Suspended == {"created", "query", "callback", "sleep"}
Terminated == {"done", "cancelled"}

\* One callback invocation, as the caller-supplied callback sees it.  late: the
\* notification was emitted by the OS after a stop() that was not followed by
\* a start().
Delivery(key, payload, t, cycle, late) ==
  [key |-> key, payload |-> payload, task |-> t, cycle |-> cycle, late |-> late]

\* The top of the while loop: another cycle when the listener is running.
LoopHead(t, isRunning, exc) ==
  IF isRunning
  THEN /\ ncycles < MaxCycles
       /\ ncycles' = ncycles + 1
       /\ tasks' = [tasks EXCEPT ![t] = [NoTask EXCEPT !.pc = "query",
                                                        !.cycle = ncycles + 1,
                                                        !.exc = exc]]
  ELSE /\ tasks' = [tasks EXCEPT ![t] = [NoTask EXCEPT !.pc = "done"]]
       /\ UNCHANGED ncycles

\* The callback is on_notification and the client is closed: forward() raises
\* with nothing awaited, and the cycle ends in its except clause in the run of
\* the task that invoked the callback.
RaisesAtOnce == wired /\ ClientClosed

\* The for loop of task t (its record tk) resumes at position i of its listing:
\* up to the next await of the callback, or through the clean-up to the sleep.
ResumeLoop(t, tk, i) ==
  LET L == Listings[tk.listing]
      r == ScanFrom(seen_ids, L, i, callback)
  IN IF r.call
     THEN /\ seen_ids' = r.seen
          /\ tasks' = [tasks EXCEPT ![t] =
                         [tk EXCEPT !.pc = IF RaisesAtOnce THEN "sleep" ELSE "callback",
                                    !.idx = r.idx, !.exc = RaisesAtOnce]]
          /\ delivered' = Append(delivered,
               Delivery(L[r.idx], ConvertNotification(Notif(L[r.idx])), t,
                        tk.cycle, tk.late))
          /\ ForwardCall(ConvertNotification(Notif(L[r.idx])))
     ELSE /\ seen_ids' = Cleanup(r.seen, L)
          /\ tasks' = [tasks EXCEPT ![t] = [tk EXCEPT !.pc = "sleep", !.idx = r.idx,
                                                       !.exc = FALSE]]
          /\ UNCHANGED <<delivered, forwards>>

\* CycleRaised with the exception leaving the while loop.
CycleRaisedEndsLoop(t) ==
  tasks' = [tasks EXCEPT ![t] = [NoTask EXCEPT !.pc = "done", !.exc = TRUE]]

\* An exception reaches the except clause of the cycle: logged, then the sleep.
CycleRaised(t) ==
  tasks' = [tasks EXCEPT ![t].pc = "sleep", ![t].exc = TRUE]

\* start(): the winrt import, then the await of request_access_async.
WindowsStartCall ==
  /\ platform = "win32" /\ op = "idle" /\ ncalls < MaxCalls
  /\ ncalls' = ncalls + 1
  /\ access_status' = "none"
  /\ \E winrt \in BOOLEAN :
       IF winrt
       THEN /\ callback' = TRUE
            /\ access_requests' = 1
            /\ op' = "start" /\ oppc' = "access"
            /\ UNCHANGED <<lastCall, lastResult>>
       ELSE /\ Return("start", "raised")
            /\ access_requests' = 0
            /\ UNCHANGED callback
  /\ UNCHANGED otherVars
  /\ UNCHANGED <<platform, running, started, delivered>>
  /\ UNCHANGED <<seen_ids, poll_task, tasks, ntasks, ncycles>>
  /\ UNCHANGED linuxVars /\ UNCHANGED fwdVars

\* AccessAllowed with every status but DENIED taken as a grant.
AccessNotDenied(access) == access # "denied"

\* access == UserNotificationListenerAccessStatus.ALLOWED
AccessAllowed(access) == access = "allowed"

\* start() resumes with the access status.
WindowsAccessReply ==
  /\ platform = "win32" /\ op = "start" /\ oppc = "access"
  /\ \E access \in {"allowed", "denied", "unspecified"} :
       /\ access_status' = access
       /\ IF AccessAllowed(access)
          THEN /\ running' = TRUE
               /\ ntasks' = ntasks + 1
               /\ tasks' = [tasks EXCEPT ![ntasks + 1] = [NoTask EXCEPT !.pc = "created"]]
               /\ poll_task' = ntasks + 1
               /\ started' = "ok"
               /\ Return("start", "ok")
          ELSE /\ Return("start", "raised")
               /\ UNCHANGED <<running, ntasks, tasks, poll_task, started>>
  /\ UNCHANGED otherVars
  /\ UNCHANGED <<platform, callback, ncalls, seen_ids, ncycles,
                 delivered, access_requests>>
  /\ UNCHANGED linuxVars /\ UNCHANGED fwdVars

\* The poll task runs for the first time: the NotificationKinds import, then
\* the while loop.
PollTaskRun(t) ==
  /\ platform = "win32" /\ tasks[t].pc = "created" /\ ~tasks[t].cancel
  /\ \E kinds \in BOOLEAN :
       IF kinds THEN LoopHead(t, running, FALSE)
       ELSE tasks' = [tasks EXCEPT ![t] = [NoTask EXCEPT !.pc = "done"]]
            /\ UNCHANGED ncycles
  /\ UNCHANGED otherVars
  /\ UNCHANGED <<platform, running, callback, seen_ids, poll_task, ntasks, delivered,
                 access_requests, access_status>>
  /\ UNCHANGED callerVars /\ UNCHANGED linuxVars /\ UNCHANGED fwdVars

\* get_notifications_async returns a listing: the for loop runs up to its
\* first await of the callback, or through the clean-up to the sleep.
QueryReturnOf(t, l) ==
  /\ platform = "win32" /\ tasks[t].pc = "query" /\ ~tasks[t].cancel
  /\ ResumeLoop(t, [tasks[t] EXCEPT !.listing = l, !.late = StoppedNow,
                       !.k = Cardinality(IdSets[l] \ seen_ids),
                       !.newc = (IdSets[l] \cap Convertible) \ seen_ids],
                1)
  /\ UNCHANGED envVars /\ UNCHANGED consumed
  /\ UNCHANGED <<platform, running, callback, poll_task, ntasks, ncycles,
                 access_requests, access_status, wired, clock>>
  /\ UNCHANGED callerVars /\ UNCHANGED linuxVars

\* The same, for one of the common listings.
QueryReturn(t) ==
  /\ \E l \in CommonListings : QueryReturnOf(t, l)
  /\ UNCHANGED histVars

\* get_notifications_async raises.
QueryRaise(t) ==
  /\ platform = "win32" /\ tasks[t].pc = "query" /\ ~tasks[t].cancel
  /\ CycleRaised(t)
  /\ UNCHANGED otherVars
  /\ UNCHANGED <<platform, running, callback, seen_ids, poll_task, ntasks, ncycles,
                 delivered, access_requests, access_status>>
  /\ UNCHANGED callerVars /\ UNCHANGED linuxVars /\ UNCHANGED fwdVars

\* The forward() awaited by the callback returns and, in the same run of the
\* task, the for loop goes on up to the next forward() or to the sleep.
CallbackResumes(t) ==
  IF wired
  THEN \E reply \in Replies :
         /\ Forward(reply).result = "returned"
         /\ LET L == Listings[tasks[t].listing]
                r == ScanFrom(seen_ids, L, tasks[t].idx + 1, callback)
                ended == [forwards EXCEPT
                            ![InvocationOf(t)].pc = "returned",
                            ![InvocationOf(t)].reply = reply,
                            ![InvocationOf(t)].posts = Forward(reply).posts,
                            ![InvocationOf(t)].log = Forward(reply).log]
            IN IF r.call
               THEN /\ Len(forwards) < MaxForwards
                    /\ seen_ids' = r.seen
                    /\ tasks' = [tasks EXCEPT
                                   ![t].pc = IF RaisesAtOnce THEN "sleep" ELSE "callback",
                                   ![t].idx = r.idx, ![t].exc = RaisesAtOnce]
                    /\ delivered' = Append(delivered,
                         Delivery(L[r.idx], ConvertNotification(Notif(L[r.idx])), t,
                                  tasks[t].cycle, tasks[t].late))
                    /\ forwards' = Append(ended,
                         NewForward(ConvertNotification(Notif(L[r.idx])), clock))
               ELSE /\ seen_ids' = Cleanup(r.seen, L)
                    /\ tasks' = [tasks EXCEPT ![t].pc = "sleep", ![t].idx = r.idx,
                                               ![t].exc = FALSE]
                    /\ forwards' = ended
                    /\ UNCHANGED delivered
  ELSE ResumeLoop(t, tasks[t], tasks[t].idx + 1)

\* The awaited callback returns: the for loop goes on with the next item.
CallbackReturn(t) ==
  /\ platform = "win32" /\ tasks[t].pc = "callback" /\ ~tasks[t].cancel
  /\ CallbackResumes(t)
  /\ UNCHANGED otherVars
  /\ UNCHANGED <<platform, running, callback, poll_task, ntasks, ncycles,
                 access_requests, access_status, wired, clock>>
  /\ UNCHANGED callerVars /\ UNCHANGED linuxVars

\* CallbackRaises with the exception caught inside the for loop, which goes
\* on with the next item.
CallbackRaisesGoesOn(t) ==
  /\ platform = "win32" /\ tasks[t].pc = "callback" /\ ~tasks[t].cancel
  /\ ResumeLoop(t, tasks[t], tasks[t].idx + 1)
  /\ UNCHANGED envVars /\ UNCHANGED consumed
  /\ UNCHANGED <<platform, running, callback, poll_task, ntasks, ncycles,
                 access_requests, access_status, wired, clock>>
  /\ UNCHANGED callerVars /\ UNCHANGED linuxVars

\* The awaited callback raises an Exception.
CallbackRaises(t) ==
  /\ platform = "win32" /\ tasks[t].pc = "callback" /\ ~tasks[t].cancel
  /\ CycleRaised(t)
  /\ ForwardEnd(InvocationOf(t), "raised")
  /\ UNCHANGED envVars /\ UNCHANGED consumed
  /\ UNCHANGED <<platform, running, callback, seen_ids, poll_task, ntasks, ncycles,
                 delivered, access_requests, access_status, wired, clock>>
  /\ UNCHANGED callerVars /\ UNCHANGED linuxVars

CallbackRaise(t) == CallbackRaises(t) /\ UNCHANGED histVars

\* asyncio.sleep(0.5) is over: back to the top of the while loop.
SleepDone(t) ==
  /\ platform = "win32" /\ tasks[t].pc = "sleep" /\ ~tasks[t].cancel
  /\ LoopHead(t, running, tasks[t].exc)
  /\ UNCHANGED otherVars
  /\ UNCHANGED <<platform, running, callback, seen_ids, poll_task, ntasks, delivered,
                 access_requests, access_status>>
  /\ UNCHANGED callerVars /\ UNCHANGED linuxVars /\ UNCHANGED fwdVars

\* Task.cancel(): a task that has not terminated gets CancelledError thrown in
\* at the await it is suspended at; a terminated task is left alone.
Cancel(ts, t) ==
  IF ts[t].pc \in Suspended THEN [ts EXCEPT ![t].cancel = TRUE] ELSE ts

\* AwaitDone with stop() not waiting for the task.
AwaitDoneAtOnce(t) == TRUE

\* `await self._poll_task` in stop() can resume: the task has terminated.
AwaitDone(t) == tasks[t].pc \in Terminated

\* AwaitResult with CancelledError not caught.
AwaitResultPropagates(taskpc) == IF taskpc = "cancelled" THEN "raised" ELSE "ok"

\* What `await self._poll_task` in stop() ends with, the awaited task having
\* ended as taskpc: the CancelledError of a cancelled task is caught and
\* passed over.
AwaitResult(taskpc) == IF taskpc = "cancelled" THEN "ok" ELSE "ok"

\* stop(): clear the flag, cancel the poll task, await it.
WindowsStopCall ==
  /\ platform = "win32" /\ op = "idle" /\ ncalls < MaxCalls
  /\ ncalls' = ncalls + 1
  /\ running' = FALSE
  /\ IF poll_task = 0
     THEN /\ Return("stop", "ok")
          /\ started' = "no"
          /\ UNCHANGED <<tasks, poll_task>>
     ELSE IF tasks[poll_task].pc \in Terminated
     THEN /\ Return("stop", AwaitResult(tasks[poll_task].pc))
          /\ started' = "no"
          /\ poll_task' = 0
          /\ UNCHANGED tasks
     ELSE /\ tasks' = Cancel(tasks, poll_task)
          /\ op' = "stop" /\ oppc' = "await_task"
          /\ UNCHANGED <<lastCall, lastResult, started, poll_task>>
  /\ access_requests' = 0 /\ access_status' = "none"
  /\ UNCHANGED otherVars
  /\ UNCHANGED <<platform, callback, seen_ids, ntasks, ncycles, delivered>>
  /\ UNCHANGED linuxVars /\ UNCHANGED fwdVars

\* CancelledError is thrown into the task at its await: no except clause of
\* _poll_notifications catches it (it is no Exception), the task ends cancelled.
TaskCancelled(t) ==
  /\ platform = "win32" /\ tasks[t].pc \in Suspended /\ tasks[t].cancel
  /\ tasks' = [tasks EXCEPT ![t] = [NoTask EXCEPT !.pc = "cancelled",
                                                   !.at = tasks[t].pc]]
  /\ IF tasks[t].pc = "callback" THEN ForwardCancelled(InvocationOf(t))
     ELSE UNCHANGED forwards
  /\ UNCHANGED otherVars
  /\ UNCHANGED <<platform, running, callback, seen_ids, poll_task, ntasks, ncycles,
                 delivered, access_requests, access_status, wired, clock>>
  /\ UNCHANGED callerVars /\ UNCHANGED linuxVars

\* stop() resumes from the await of the task.
WindowsStopReturn ==
  /\ platform = "win32" /\ op = "stop" /\ oppc = "await_task"
  /\ AwaitDone(poll_task)
  /\ Return("stop", AwaitResult(tasks[poll_task].pc))
  /\ IF AwaitResult(tasks[poll_task].pc) = "ok"
     THEN poll_task' = 0
     ELSE UNCHANGED poll_task
  /\ started' = "no"
  /\ UNCHANGED otherVars
  /\ UNCHANGED <<platform, running, callback, ncalls, seen_ids,
                 tasks, ntasks, ncycles, delivered, access_requests, access_status>>
  /\ UNCHANGED linuxVars /\ UNCHANGED fwdVars

\* -------------------------------------------------------- Linux listener
\* The hints of a Notify call: mapping is false when the 7th argument is no
\* mapping; each item has the key, the unwrapped value (v.value of a Variant,
\* v itself otherwise), whether json.dumps accepts that value, and str(v).
NoHints == [mapping |-> TRUE, items |-> <<>>]
SomeHints ==
  [mapping |-> TRUE,
   items |-> << [key |-> "urgency", variant |-> TRUE, value |-> "1",
                 jsonable |-> TRUE, str |-> "<Variant ('y', 1)>"],
                [key |-> "image-data", variant |-> TRUE, value |-> "<bytes>",
                 jsonable |-> FALSE, str |-> "<Variant ('ay', bytes)>"],
                [key |-> "category", variant |-> FALSE, value |-> "im",
                 jsonable |-> TRUE, str |-> "im"] >>]
BadHints == [mapping |-> FALSE, items |-> <<>>]

\* The messages the bus can hand to a message handler.
Msgs ==
  << [message_type |-> "method_call", interface |-> "org.freedesktop.Notifications",
      member |-> "Notify",
      body |-> <<"TestApp", 0, "icon", "Summary", "Body", <<>>, NoHints, -1>>],
     [message_type |-> "method_call", interface |-> "org.freedesktop.Notifications",
      member |-> "Notify",
      body |-> <<"Chat", 7, "", "Hi", "", <<"default", "Open">>, SomeHints, 5000>>],
     [message_type |-> "method_call", interface |-> "org.freedesktop.Notifications",
      member |-> "Notify",
      body |-> <<"Short", 0, "icon">>],
     [message_type |-> "signal", interface |-> "org.freedesktop.DBus",
      member |-> "NameAcquired",
      body |-> <<":1.42">>],
     [message_type |-> "method_call", interface |-> "org.freedesktop.Notifications",
      member |-> "Notify",
      body |-> <<"Odd", 0, "", "S", "B", <<>>, BadHints, -1>>],
     [message_type |-> "method_call", interface |-> "org.freedesktop.Notifications",
      member |-> "GetCapabilities",
      body |-> <<>>],
     [message_type |-> "signal", interface |-> "org.freedesktop.Notifications",
      member |-> "Notify",
      body |-> <<"TestApp", 0, "icon", "Summary", "Body", <<>>, NoHints, -1>>],
     [message_type |-> "method_call", interface |-> "org.example.Notifications",
      member |-> "Notify",
      body |-> <<"TestApp", 0, "icon", "Summary", "Body", <<>>, NoHints, -1>>] >>

\* The condition of _handle_message without the test of the member.
IsNotifyAnyMember(msg) ==
  /\ msg.message_type = "method_call"
  /\ msg.interface = "org.freedesktop.Notifications"

\* The condition of _handle_message.
IsNotify(msg) ==
  /\ msg.message_type = "method_call"
  /\ msg.interface = "org.freedesktop.Notifications"
  /\ msg.member = "Notify"

\* _handle_message(msg): whether it schedules _process_notification(msg), and
\* the value it returns (True would consume the message).
HandleMessage(msg) == [schedule |-> IsNotify(msg), returns |-> FALSE]

\* SerializableHints with the except clause leaving the hint out: only the
\* hints json.dumps accepts are kept.
SerializableHintsDropsOthers(hints) ==
  LET kept == {hints.items[j] : j \in {n \in 1 .. Len(hints.items) :
                                         hints.items[n].jsonable}}
      item(k) == CHOOSE it \in kept : it.key = k
  IN [k \in {it.key : it \in kept} |-> item(k).value]

\* The hints loop of _process_notification.
SerializableHints(hints) ==
  LET keys == {hints.items[j].key : j \in 1 .. Len(hints.items)}
      item(k) == CHOOSE it \in {hints.items[j] : j \in 1 .. Len(hints.items)} :
                   it.key = k
  IN [k \in keys |-> IF item(k).jsonable THEN item(k).value ELSE item(k).str]

\* ProcessNotification with the icon passed as the summary.
ProcessNotificationIconAsSummary(msg, cb) ==
  LET args == msg.body
  IN IF Len(args) < 8 THEN [outcome |-> "malformed", payload |-> None]
     ELSE IF ~args[7].mapping THEN [outcome |-> "raised", payload |-> None]
     ELSE IF ~cb THEN [outcome |-> "no_callback", payload |-> None]
     ELSE [outcome |-> "call",
           payload |-> [kind |-> "payload", app_name |-> args[1],
                        summary |-> args[3], body |-> args[5], icon |-> args[3],
                        replaces_id |-> args[2], actions |-> args[6],
                        hints |-> SerializableHints(args[7]), timeout |-> args[8]]]

\* ProcessNotification with the length test left out and the missing
\* arguments of a short message taken as empty.
ProcessNotificationPadsShort(msg, cb) ==
  LET args == msg.body
  IN IF Len(args) >= 8 /\ ~args[7].mapping THEN [outcome |-> "raised", payload |-> None]
     ELSE IF ~cb THEN [outcome |-> "no_callback", payload |-> None]
     ELSE [outcome |-> "call",
           payload |-> [kind |-> "payload", app_name |-> args[1],
                        summary |-> IF Len(args) >= 4 THEN args[4] ELSE "",
                        body |-> IF Len(args) >= 5 THEN args[5] ELSE "",
                        icon |-> IF Len(args) >= 3 THEN args[3] ELSE "",
                        replaces_id |-> IF Len(args) >= 2 THEN args[2] ELSE 0,
                        actions |-> IF Len(args) >= 6 THEN args[6] ELSE <<>>,
                        hints |-> IF Len(args) >= 7 THEN SerializableHints(args[7])
                                  ELSE SerializableHints(NoHints),
                        timeout |-> IF Len(args) >= 8 THEN args[8] ELSE -1]]

\* _process_notification up to the await of the callback.
ProcessNotification(msg, cb) ==
  LET args == msg.body
  IN IF Len(args) < 8 THEN [outcome |-> "malformed", payload |-> None]
     ELSE IF ~args[7].mapping THEN [outcome |-> "raised", payload |-> None]
     ELSE IF ~cb THEN [outcome |-> "no_callback", payload |-> None]
     ELSE [outcome |-> "call",
           payload |-> [kind |-> "payload", app_name |-> args[1],
                        summary |-> args[4], body |-> args[5], icon |-> args[3],
                        replaces_id |-> args[2], actions |-> args[6],
                        hints |-> SerializableHints(args[7]), timeout |-> args[8]]]

NoBus == [connected |-> FALSE, handler |-> FALSE]

\* start(): set the callback, await the connection.
LinuxStartCall ==
  /\ platform = "linux" /\ op = "idle" /\ ncalls < MaxCalls
  /\ ncalls' = ncalls + 1
  /\ callback' = TRUE
  /\ op' = "start" /\ oppc' = "connect"
  /\ UNCHANGED otherVars
  /\ UNCHANGED <<platform, running, lastCall, lastResult, started, delivered>>
  /\ UNCHANGED winVars /\ UNCHANGED linuxVars /\ UNCHANGED fwdVars

\* LinuxConnectReply with the running flag set before the connection is
\* awaited.
LinuxConnectReplyRunningFirst ==
  /\ platform = "linux" /\ op = "start" /\ oppc = "connect"
  /\ running' = TRUE
  /\ \E connected \in BOOLEAN :
       IF connected
       THEN /\ nbuses' = nbuses + 1
            /\ bus' = nbuses + 1
            /\ buses' = [buses EXCEPT ![nbuses + 1] = [connected |-> TRUE,
                                                        handler |-> FALSE]]
            /\ oppc' = "add_match"
            /\ UNCHANGED <<op, lastCall, lastResult>>
       ELSE /\ Return("start", "raised")
            /\ UNCHANGED <<nbuses, bus, buses>>
  /\ UNCHANGED otherVars
  /\ UNCHANGED <<platform, callback, started, ncalls, delivered,
                 procs, nmsgs>>
  /\ UNCHANGED winVars /\ UNCHANGED fwdVars

\* MessageBus(...).connect() returns the connected bus, or raises.
LinuxConnectReply ==
  /\ platform = "linux" /\ op = "start" /\ oppc = "connect"
  /\ \E connected \in BOOLEAN :
       IF connected
       THEN /\ nbuses' = nbuses + 1
            /\ bus' = nbuses + 1
            /\ buses' = [buses EXCEPT ![nbuses + 1] = [connected |-> TRUE,
                                                        handler |-> FALSE]]
            /\ running' = TRUE
            /\ oppc' = "add_match"
            /\ UNCHANGED <<op, lastCall, lastResult>>
       ELSE /\ Return("start", "raised")
            /\ UNCHANGED <<nbuses, bus, buses, running>>
  /\ UNCHANGED otherVars
  /\ UNCHANGED <<platform, callback, started, ncalls, delivered,
                 procs, nmsgs>>
  /\ UNCHANGED winVars /\ UNCHANGED fwdVars

\* What start() does with the outcome of the AddMatch call: whether the
\* message handler is registered, the running flag, and how start() ends.
AfterAddMatch(reply, isRunning) ==
  IF reply = "method_return"
  THEN [handler |-> TRUE, running |-> isRunning, result |-> "ok"]
  ELSE IF reply = "error"
  THEN [handler |-> FALSE, running |-> isRunning, result |-> "soft_fail"]
  ELSE [handler |-> FALSE, running |-> isRunning, result |-> "raised"]

\* The bus answers the AddMatch call with a method return or an error reply,
\* or the call raises.
LinuxAddMatchReply ==
  /\ platform = "linux" /\ op = "start" /\ oppc = "add_match"
  /\ \E reply \in {"method_return", "error", "raise"} :
       LET a == AfterAddMatch(reply, running)
       IN /\ buses' = [buses EXCEPT ![bus].handler = a.handler]
          /\ running' = a.running
          /\ Return("start", a.result)
          /\ started' = IF a.result = "ok" THEN "ok"
                        ELSE IF a.result = "soft_fail" THEN "soft"
                        ELSE started
  /\ UNCHANGED otherVars
  /\ UNCHANGED <<platform, callback, ncalls, delivered, bus, nbuses,
                 procs, nmsgs>>
  /\ UNCHANGED winVars /\ UNCHANGED fwdVars

\* Disconnect with the close left out.
DisconnectLeavesOpen(bs, b) == bs

\* bus.disconnect(): the connection is closed and hands no further message to
\* its handlers; on a connection already closed it does nothing.
Disconnect(bs, b) ==
  IF b # 0 THEN [bs EXCEPT ![b].connected = FALSE] ELSE bs

\* LinuxStop with the clearing of the running flag left out.
LinuxStopKeepsRunning ==
  /\ platform = "linux" /\ op = "idle" /\ ncalls < MaxCalls
  /\ ncalls' = ncalls + 1
  /\ buses' = Disconnect(buses, bus)
  /\ Return("stop", "ok")
  /\ started' = "no"
  /\ UNCHANGED otherVars
  /\ UNCHANGED <<platform, running, callback, delivered, bus, nbuses, procs,
                 nmsgs>>
  /\ UNCHANGED winVars /\ UNCHANGED fwdVars

\* stop(): no await in it.
LinuxStop ==
  /\ platform = "linux" /\ op = "idle" /\ ncalls < MaxCalls
  /\ ncalls' = ncalls + 1
  /\ running' = FALSE
  /\ buses' = Disconnect(buses, bus)
  /\ Return("stop", "ok")
  /\ started' = "no"
  /\ UNCHANGED otherVars
  /\ UNCHANGED <<platform, callback, delivered, bus, nbuses, procs, nmsgs>>
  /\ UNCHANGED winVars /\ UNCHANGED fwdVars

NewProc(m, late) == [msg |-> m, pc |-> "created", late |-> late, result |-> "none"]

\* _handle_message, called by a connected bus for a message it received.
LinuxBusMessage(b) ==
  /\ platform = "linux" /\ buses[b].connected /\ buses[b].handler
  /\ nmsgs < MaxMsgs
  /\ nmsgs' = nmsgs + 1
  /\ \E m \in 1 .. Len(Msgs) :
       /\ procs' = IF HandleMessage(Msgs[m]).schedule
                   THEN Append(procs, NewProc(m, StoppedNow))
                   ELSE procs
       /\ consumed' = IF HandleMessage(Msgs[m]).returns THEN consumed + 1
                      ELSE consumed
  /\ UNCHANGED envVars /\ UNCHANGED histVars
  /\ UNCHANGED <<platform, running, callback, delivered, bus, buses, nbuses>>
  /\ UNCHANGED callerVars /\ UNCHANGED winVars /\ UNCHANGED fwdVars

\* LinuxProcRun with the callback called and not awaited.
LinuxProcRunNoAwait(p) ==
  /\ platform = "linux" /\ procs[p].pc = "created"
  /\ LET r == ProcessNotification(Msgs[procs[p].msg], callback)
     IN IF r.outcome = "call"
        THEN /\ procs' = [procs EXCEPT ![p].pc = "done", ![p].result = "returned"]
             /\ delivered' = Append(delivered,
                  Delivery(procs[p].msg, r.payload, p, 0, procs[p].late))
             /\ ForwardCall(r.payload)
        ELSE /\ procs' = [procs EXCEPT ![p].pc = "done", ![p].result = r.outcome]
             /\ UNCHANGED <<delivered, forwards>>
  /\ UNCHANGED otherVars
  /\ UNCHANGED <<platform, running, callback, bus, buses, nbuses, nmsgs, wired, clock>>
  /\ UNCHANGED callerVars /\ UNCHANGED winVars

\* LinuxProcRun with a lock around the callback: a task waits while the
\* callback invocation of another is in progress.
LinuxProcRunOneAtATime(p) ==
  /\ platform = "linux" /\ procs[p].pc = "created"
  /\ \A q \in 1 .. Len(procs) : procs[q].pc # "callback"
  /\ LET r == ProcessNotification(Msgs[procs[p].msg], callback)
     IN IF r.outcome = "call"
        THEN /\ procs' = IF RaisesAtOnce
                         THEN [procs EXCEPT ![p].pc = "done",
                                            ![p].result = "callback_raised"]
                         ELSE [procs EXCEPT ![p].pc = "callback"]
             /\ delivered' = Append(delivered,
                  Delivery(procs[p].msg, r.payload, p, 0, procs[p].late))
             /\ ForwardCall(r.payload)
        ELSE /\ procs' = [procs EXCEPT ![p].pc = "done", ![p].result = r.outcome]
             /\ UNCHANGED <<delivered, forwards>>
  /\ UNCHANGED otherVars
  /\ UNCHANGED <<platform, running, callback, bus, buses, nbuses, nmsgs, wired, clock>>
  /\ UNCHANGED callerVars /\ UNCHANGED winVars

\* A _process_notification task runs up to the await of the callback; when
\* the callback is on_notification and the client is closed, forward() raises
\* with nothing awaited and the task ends in its except clause.
LinuxProcRun(p) ==
  /\ platform = "linux" /\ procs[p].pc = "created"
  /\ LET r == ProcessNotification(Msgs[procs[p].msg], callback)
     IN IF r.outcome = "call"
        THEN /\ procs' = IF RaisesAtOnce
                         THEN [procs EXCEPT ![p].pc = "done",
                                            ![p].result = "callback_raised"]
                         ELSE [procs EXCEPT ![p].pc = "callback"]
             /\ delivered' = Append(delivered,
                  Delivery(procs[p].msg, r.payload, p, 0, procs[p].late))
             /\ ForwardCall(r.payload)
        ELSE /\ procs' = [procs EXCEPT ![p].pc = "done", ![p].result = r.outcome]
             /\ UNCHANGED <<delivered, forwards>>
  /\ UNCHANGED otherVars
  /\ UNCHANGED <<platform, running, callback, bus, buses, nbuses, nmsgs, wired, clock>>
  /\ UNCHANGED callerVars /\ UNCHANGED winVars

\* LinuxCallbackDone with an exception of the callback ending the listener.
LinuxCallbackDoneStopsListener(p) ==
  /\ platform = "linux" /\ procs[p].pc = "callback"
  /\ \E raised \in BOOLEAN :
       /\ procs' = [procs EXCEPT ![p].pc = "done",
                                 ![p].result = IF raised THEN "callback_raised"
                                               ELSE "returned"]
       /\ ForwardEnd(InvocationOf(p), IF raised THEN "raised" ELSE "returned")
       /\ running' = IF raised THEN FALSE ELSE running
  /\ UNCHANGED otherVars
  /\ UNCHANGED <<platform, callback, delivered, bus, buses, nbuses, nmsgs,
                 wired, clock>>
  /\ UNCHANGED callerVars /\ UNCHANGED winVars

\* The awaited callback returns, or raises into the except clause.
LinuxCallbackDone(p) ==
  /\ platform = "linux" /\ procs[p].pc = "callback"
  /\ \E raised \in BOOLEAN :
       /\ procs' = [procs EXCEPT ![p].pc = "done",
                                 ![p].result = IF raised THEN "callback_raised"
                                               ELSE "returned"]
       /\ ForwardEnd(InvocationOf(p), IF raised THEN "raised" ELSE "returned")
  /\ UNCHANGED otherVars
  /\ UNCHANGED <<platform, running, callback, delivered, bus, buses, nbuses, nmsgs,
                 wired, clock>>
  /\ UNCHANGED callerVars /\ UNCHANGED winVars

\* ------------------------------------------------------ the specification
TaskIds == 1 .. MaxCalls

\* A listener as get_listener returns it, nothing called on it yet.
Fresh ==
  /\ platform \in Platforms
  /\ running = FALSE
  /\ callback = FALSE
  /\ op = "idle" /\ oppc = ""
  /\ lastCall = "none" /\ lastResult = "none"
  /\ started = "no"
  /\ ncalls = 0
  /\ seen_ids = {}
  /\ poll_task = 0
  /\ tasks = [t \in TaskIds |-> NoTask]
  /\ ntasks = 0 /\ ncycles = 0
  /\ delivered = <<>>
  /\ bus = 0
  /\ buses = [b \in TaskIds |-> NoBus]
  /\ nbuses = 0
  /\ procs = <<>>
  /\ nmsgs = 0
  /\ access_requests = 0
  /\ access_status = "none"
  /\ clock = ClockStart
  /\ forwards = <<>>
  /\ selected = <<>>
  /\ converted = <<>>
  /\ aborted = FALSE
  /\ consumed = 0
  /\ listed = {} /\ steady = {} /\ owed = {}
  /\ due = [cycle |-> 0, ids |-> {}]

\* The callback given to start() is any coroutine function of the caller.
Init == Fresh /\ wired = FALSE /\ settings = DefaultSettings

\* The caller keeps to the protocol of the listener contract: start() is not
\* called again after a start() that returned, before a stop().
MayStart == started = "no"

Next ==
  \/ MayStart /\ WindowsStartCall
  \/ WindowsAccessReply
  \/ WindowsStopCall
  \/ WindowsStopReturn
  \/ \E t \in TaskIds : PollTaskRun(t)
  \/ \E t \in TaskIds : QueryReturn(t)
  \/ \E t \in TaskIds : QueryRaise(t)
  \/ \E t \in TaskIds : CallbackReturn(t)
  \/ \E t \in TaskIds : CallbackRaise(t)
  \/ \E t \in TaskIds : SleepDone(t)
  \/ \E t \in TaskIds : TaskCancelled(t)
  \/ MayStart /\ LinuxStartCall
  \/ LinuxConnectReply
  \/ LinuxAddMatchReply
  \/ LinuxStop
  \/ \E b \in TaskIds : LinuxBusMessage(b)
  \/ \E p \in 1 .. Len(procs) : LinuxProcRun(p)
  \/ \E p \in 1 .. Len(procs) : LinuxCallbackDone(p)

Spec == Init /\ [][Next]_vars

\* The steps of the Windows listener and of its caller.
WindowsNext ==
  \/ MayStart /\ WindowsStartCall
  \/ WindowsAccessReply
  \/ WindowsStopCall
  \/ WindowsStopReturn
  \/ \E t \in TaskIds : PollTaskRun(t)
  \/ \E t \in TaskIds : QueryReturn(t)
  \/ \E t \in TaskIds : QueryRaise(t)
  \/ \E t \in TaskIds : CallbackReturn(t)
  \/ \E t \in TaskIds : CallbackRaise(t)
  \/ \E t \in TaskIds : SleepDone(t)
  \/ \E t \in TaskIds : TaskCancelled(t)

\* The Windows listener alone.
WindowsSpec == Init /\ [][WindowsNext]_vars

\* The event loop runs every callback it has scheduled: the wake-up of a
\* cancelled task, and the wake-up of stop() when the task it awaits is done.
FairSpec ==
  /\ WindowsSpec
  /\ WF_vars(\E t \in TaskIds : TaskCancelled(t))
  /\ WF_vars(WindowsStopReturn)

\* --------------------------------------------------- the bridge service
\* lifespan: the listener is started once, with on_notification as callback,
\* and stopped once, after the start() that returned.
LifespanStart == ncalls = 0
\* lifespan with the stop() in a finally clause: it follows a start() that
\* raised as well.
LifespanStopInFinally == op = "idle" /\ lastCall = "start"
\* The lifespan resumes from its yield and goes on to `await listener.stop()`.
LifespanStop ==
  /\ ~aborted
  /\ op = "idle" /\ lastCall = "start" /\ lastResult \in {"ok", "soft_fail"}

\* The lifespan is suspended at its yield: start() has returned and the
\* lifespan has neither gone on nor been left.
AtYield ==
  /\ ~aborted
  /\ op = "idle" /\ lastCall = "start" /\ lastResult \in {"ok", "soft_fail"}

\* The body of the server's `async with lifespan(app)` raises or is
\* cancelled: the exception is thrown into lifespan at its yield.  No try
\* statement encloses the yield: `await listener.stop()` is passed over and
\* the `async with` block of the client is left, which closes the client.
\* The listener is left as it is.
LifespanAbort ==
  /\ AtYield
  /\ aborted' = TRUE
  /\ UNCHANGED <<platform, running, callback, delivered, settings, selected,
                 consumed, converted>>
  /\ UNCHANGED callerVars /\ UNCHANGED winVars /\ UNCHANGED linuxVars
  /\ UNCHANGED fwdVars /\ UNCHANGED histVars

\* The callback given to start() is on_notification, which awaits
\* forwarder.forward(notification).
WiredInit == Fresh /\ wired = TRUE /\ settings = DefaultSettings

BridgeNext ==
  \/ LifespanStart /\ WindowsStartCall
  \/ WindowsAccessReply
  \/ LifespanStop /\ WindowsStopCall
  \/ WindowsStopReturn
  \/ \E t \in TaskIds : PollTaskRun(t)
  \/ \E t \in TaskIds : QueryReturn(t)
  \/ \E t \in TaskIds : QueryRaise(t)
  \/ \E t \in TaskIds : CallbackReturn(t)
  \/ \E t \in TaskIds : CallbackRaise(t)
  \/ \E t \in TaskIds : SleepDone(t)
  \/ \E t \in TaskIds : TaskCancelled(t)
  \/ LifespanStart /\ LinuxStartCall
  \/ LinuxConnectReply
  \/ LinuxAddMatchReply
  \/ LifespanStop /\ LinuxStop
  \/ \E b \in TaskIds : LinuxBusMessage(b)
  \/ \E p \in 1 .. Len(procs) : LinuxProcRun(p)
  \/ \E p \in 1 .. Len(procs) : LinuxCallbackDone(p)
  \/ LifespanAbort

\* The clock is left where it is: what the bridge does depends on no name.
BridgeSpec == WiredInit /\ [][BridgeNext]_vars

\* ------------------------------------------- the forwarder called directly
\* The payloads forward() is called with.
Payloads ==
  << ProcessNotification(Msgs[1], TRUE).payload,
     ProcessNotification(Msgs[2], TRUE).payload,
     ConvertNotification(Notif(1)),
     [kind |-> "payload", app_name |-> "My App (v2.0)", summary |-> "Test",
      body |-> "Test body", icon |-> "", replaces_id |-> 0, actions |-> <<>>,
      hints |-> SerializableHints(NoHints), timeout |-> -1] >>

\* A caller awaits forwarder.forward(payload), one call after the other.
ForwardCalled ==
  /\ \A i \in 1 .. Len(forwards) : forwards[i].pc # "post"
  /\ \E k \in 1 .. Len(Payloads) : ForwardCall(Payloads[k])
  /\ UNCHANGED otherVars
  /\ UNCHANGED <<platform, running, callback, delivered, wired, clock>>
  /\ UNCHANGED callerVars /\ UNCHANGED winVars /\ UNCHANGED linuxVars

\* The await of client.post in the forward() in progress ends.
ForwardResumed ==
  /\ forwards # <<>> /\ forwards[Len(forwards)].pc = "post"
  /\ \E result \in {"returned", "raised"} : ForwardEnd(Len(forwards), result)
  /\ UNCHANGED otherVars
  /\ UNCHANGED <<platform, running, callback, delivered, wired, clock>>
  /\ UNCHANGED callerVars /\ UNCHANGED winVars /\ UNCHANGED linuxVars

\* A microsecond passes.  The clock does not move backwards.
Tick ==
  /\ clock < ClockStart + MaxTicks
  /\ clock' = clock + 1
  /\ UNCHANGED otherVars
  /\ UNCHANGED <<platform, running, callback, delivered, wired, forwards>>
  /\ UNCHANGED callerVars /\ UNCHANGED winVars /\ UNCHANGED linuxVars

ForwarderNext == ForwardCalled \/ ForwardResumed \/ Tick

\* The forwarder is built with any of the settings; the platform plays no
\* part in it.
ForwarderInit ==
  Fresh /\ platform = "linux" /\ wired = TRUE /\ settings \in SettingsChoices

ForwarderSpec == ForwarderInit /\ [][ForwarderNext]_vars

\* ------------------------------------- the poll loop with its history
\* Listing number l arrives in the cycle of task t: the ids listed so far,
\* those listed every time since they first were, and of the ids a raising
\* callback made the loop skip, those this listing brings back.
ListingArrives(t, l) ==
  /\ listed' = listed \cup IdSets[l]
  /\ steady' = (steady \cap IdSets[l]) \cup (IdSets[l] \ listed)
  /\ due' = [cycle |-> tasks[t].cycle, ids |-> owed \cap IdSets[l]]
  /\ owed' = owed \ IdSets[l]

\* The ids after the position of task t in its listing that are not in the
\* seen set: the new notifications the for loop has not come to.
LaterNew(t) ==
  LET L == Listings[tasks[t].listing]
  IN {L[m] : m \in (tasks[t].idx + 1) .. Len(L)} \ seen_ids

PollQueryReturn(t) ==
  \E l \in 1 .. Len(Listings) : QueryReturnOf(t, l) /\ ListingArrives(t, l)

PollCallbackRaise(t) ==
  /\ CallbackRaises(t)
  /\ owed' = owed \cup LaterNew(t)
  /\ UNCHANGED <<listed, steady, due>>

\* The Windows listener, started once and stopped once.
PollNext ==
  \/ LifespanStart /\ WindowsStartCall
  \/ WindowsAccessReply
  \/ LifespanStop /\ WindowsStopCall
  \/ WindowsStopReturn
  \/ \E t \in TaskIds : PollTaskRun(t)
  \/ \E t \in TaskIds : PollQueryReturn(t)
  \/ \E t \in TaskIds : QueryRaise(t)
  \/ \E t \in TaskIds : CallbackReturn(t)
  \/ \E t \in TaskIds : PollCallbackRaise(t)
  \/ \E t \in TaskIds : SleepDone(t)
  \/ \E t \in TaskIds : TaskCancelled(t)

PollSpec == Init /\ [][PollNext]_vars

\* ------------------------------------------- start() called a second time
\* A caller that calls start() on one listener twice, with no stop() between
\* the two calls, and then stop() once: the calls follow each other, each
\* made when the one before it has returned or raised.
StartTwice == ncalls < 2

StopAfter == ncalls = 2

DoubleStartNext ==
  \/ StartTwice /\ WindowsStartCall
  \/ WindowsAccessReply
  \/ StopAfter /\ WindowsStopCall
  \/ WindowsStopReturn
  \/ \E t \in TaskIds : PollTaskRun(t)
  \/ \E t \in TaskIds : QueryReturn(t)
  \/ \E t \in TaskIds : QueryRaise(t)
  \/ \E t \in TaskIds : CallbackReturn(t)
  \/ \E t \in TaskIds : CallbackRaise(t)
  \/ \E t \in TaskIds : SleepDone(t)
  \/ \E t \in TaskIds : TaskCancelled(t)
  \/ StartTwice /\ LinuxStartCall
  \/ LinuxConnectReply
  \/ LinuxAddMatchReply
  \/ StopAfter /\ LinuxStop
  \/ \E b \in TaskIds : LinuxBusMessage(b)
  \/ \E p \in 1 .. Len(procs) : LinuxProcRun(p)
  \/ \E p \in 1 .. Len(procs) : LinuxCallbackDone(p)

DoubleStartSpec == Init /\ [][DoubleStartNext]_vars

\* ------------------------------------------ the conversion called alone
\* The repository holds the Windows listener twice: under notification_bridge
\* and under notification-bridge/notification_bridge.  The two differ in
\* _convert_notification only; ConvertNotification is the first of them.
Copies == {"notification_bridge", "notification-bridge"}

\* _convert_notification of the copy under notification-bridge: one try block
\* around the whole conversion, with a try of its own for the text extraction
\* only.  An exception raised while the display name is read reaches the
\* outer except clause.  The summary is assigned as soon as the first text
\* element is read (an empty text is kept as it is), so it stays when the
\* read of the second one raises.
ConvertNotificationOuterTry(n) ==
  LET app_name == IF n.display = "" THEN "Unknown" ELSE n.display
      summary == IF (n.textsOk \/ n.raisesAt > 1) /\ Len(n.texts) > 0
                 THEN n.texts[1] ELSE ""
      body == IF n.textsOk /\ Len(n.texts) > 1 THEN n.texts[2] ELSE ""
  IN IF n.display # "<raise>" /\ n.valid
     THEN [kind |-> "payload", app_name |-> app_name, summary |-> summary,
           body |-> body, icon |-> "", replaces_id |-> 0, actions |-> <<>>,
           hints |-> [windows_id |-> n.id], timeout |-> -1]
     ELSE None

ConvertNotificationOf(copy, n) ==
  IF copy = "notification_bridge" THEN ConvertNotification(n)
  ELSE ConvertNotificationOuterTry(n)

\* The notifications the conversion is called with: the display name is read,
\* is empty or missing (""), or raises when read ("<raise>"); the text
\* extraction gives its texts (raisesAt 0, textsOk true), raises before any
\* text is read (raisesAt 1) or when the second text is read (raisesAt 2); a
\* text can be empty; the payload can be built or cannot (valid false).
Natives ==
  {n \in [id : {1, 2}, display : {"Mail", "", "<raise>"}, textsOk : BOOLEAN,
          raisesAt : 0 .. 2,
          texts : {<<>>, <<"Subject">>, <<"Subject", "Text">>, <<"", "Text">>},
          valid : BOOLEAN] :
     /\ n.textsOk <=> n.raisesAt = 0
     /\ n.raisesAt = 2 => Len(n.texts) >= 2}

MaxConverts == 1

\* listener._convert_notification(notification), called on a listener of
\* one of the two copies.
ConvertCalled ==
  /\ Len(converted) < MaxConverts
  /\ \E copy \in Copies, n \in Natives :
       converted' = Append(converted, [copy |-> copy, native |-> n,
                                       result |-> ConvertNotificationOf(copy, n)])
  /\ UNCHANGED <<platform, running, callback, delivered, settings, selected,
                 consumed, aborted>>
  /\ UNCHANGED callerVars /\ UNCHANGED winVars /\ UNCHANGED linuxVars
  /\ UNCHANGED fwdVars /\ UNCHANGED histVars

ConversionNext == ConvertCalled

ConversionSpec == Init /\ [][ConversionNext]_vars

\* ------------------------------------------------- the listener selector
\* The identifiers sys.platform can hold when get_listener is called.
PlatformIds == {"linux", "win32", "darwin", "cygwin", "freebsd"}

\* get_listener with the Linux listener for every identifier but "win32".
GetListenerDefaultsToLinux(id, n) ==
  IF id = "win32"
  THEN [kind |-> "WindowsListener", instance |-> n, running |-> FALSE,
        callback |-> FALSE, message |-> <<>>]
  ELSE [kind |-> "LinuxListener", instance |-> n, running |-> FALSE,
        callback |-> FALSE, message |-> <<>>]

\* get_listener() when sys.platform is id: the listener it constructs (n is
\* the identity of the new object) or the RuntimeError it raises.
GetListener(id, n) ==
  IF id = "linux"
  THEN [kind |-> "LinuxListener", instance |-> n, running |-> FALSE,
        callback |-> FALSE, message |-> <<>>]
  ELSE IF id = "win32"
  THEN [kind |-> "WindowsListener", instance |-> n, running |-> FALSE,
        callback |-> FALSE, message |-> <<>>]
  ELSE [kind |-> "RuntimeError", instance |-> 0, running |-> FALSE,
        callback |-> FALSE, message |-> <<"Unsupported platform: ", id>>]

\* A caller calls get_listener().
GetListenerCalled ==
  /\ Len(selected) < MaxSelects
  /\ selected' = Append(selected, [platform |-> platform,
                                   result |-> GetListener(platform, Len(selected) + 1)])
  /\ UNCHANGED <<platform, running, callback, delivered, settings, consumed,
                 converted, aborted>>
  /\ UNCHANGED callerVars /\ UNCHANGED winVars /\ UNCHANGED linuxVars
  /\ UNCHANGED fwdVars /\ UNCHANGED histVars

\* The caller runs on another platform, or patches sys.platform as the tests
\* of the selector do.
PlatformPatched ==
  /\ \E id \in PlatformIds \ {platform} : platform' = id
  /\ UNCHANGED otherVars
  /\ UNCHANGED <<running, callback, delivered>>
  /\ UNCHANGED callerVars /\ UNCHANGED winVars /\ UNCHANGED linuxVars
  /\ UNCHANGED fwdVars

SelectorNext == GetListenerCalled \/ PlatformPatched

SelectorSpec == Init /\ [][SelectorNext]_vars

\* ------------------------------------------------------------- the claims

\* C1: is_running is false on a fresh instance, true after a start() that
\* succeeded and false after stop() has returned; it is true only between a
\* successful start and a completed stop.  Read between the caller's
\* operations.
C1_RunningIffStarted == op = "idle" => (running <=> started = "ok")

\* C2: Linux: when the bus answers AddMatch with an error reply, start()
\* returns without raising and the listener is left not running.
C2_SoftFailNotRunning ==
  (platform = "linux" /\ op = "idle" /\ lastCall = "start" /\ lastResult = "soft_fail")
    => ~running

\* C3: once stop() has returned, the callback is never invoked for a
\* notification the OS emits after that return (Linux: a bus message arriving,
\* Windows: a listing arriving); events in flight may still reach it.
C3_NoDeliveryOfLateEvents ==
  \A i \in 1 .. Len(delivered) : ~delivered[i].late

\* stop() has returned while the callback invocation for an earlier message
\* is still in progress.
C3_Witness ==
  /\ platform = "linux" /\ StoppedNow
  /\ \E p \in 1 .. Len(procs) : procs[p].pc = "callback" /\ ~procs[p].late

\* C4: after stop() returns, the listener is indistinguishable from one that
\* was never started with respect to is_running and to a later start(): what
\* start() and the polling it begins read (the running flag, the poll task,
\* the seen set, a connected bus with a handler) is as on a fresh instance,
\* so notifications still active at the restart are delivered as new.
C4_StoppedLikeFresh ==
  StoppedNow =>
    /\ ~running
    /\ poll_task = 0
    /\ seen_ids = {}
    /\ \A b \in TaskIds : ~(buses[b].connected /\ buses[b].handler)

\* C5: stop() on an instance that was never started, whose start() failed, or
\* that was already stopped returns without raising and leaves is_running
\* false.
C5_StopIsSafe ==
  (op = "idle" /\ lastCall = "stop") => (lastResult = "ok" /\ ~running)

\* stop() has returned on an instance whose only connection is one whose
\* AddMatch call failed, in the third call made on it.
C5_Witness ==
  /\ platform = "linux" /\ StoppedNow
  /\ ncalls = 3
  /\ nbuses = 1 /\ ~buses[1].handler

\* The callback invocations task t made in its cycle number c.
CycleDeliveries(t, c) ==
  {i \in 1 .. Len(delivered) : delivered[i].task = t /\ delivered[i].cycle = c}

\* Task t has ended a cycle that had a listing.
CycleEnded(t) == tasks[t].pc = "sleep" /\ tasks[t].listing # 0

\* C6 as stated: in a poll cycle whose listing has N ids of which K are not in
\* the seen set the callback is invoked exactly K times, and later cycles that
\* list the same ids again produce no further invocation.
C6_ExactlyKInvocations ==
  /\ \A t \in TaskIds :
       CycleEnded(t) =>
         Cardinality(CycleDeliveries(t, tasks[t].cycle)) = tasks[t].k
  /\ platform = "win32" =>
       \A i, j \in 1 .. Len(delivered) :
         i # j => delivered[i].key # delivered[j].key

\* A cycle whose for loop ran to its end invoked the callback exactly once for
\* each listed id that was not in the seen set and converts to a payload.
C6_CompletedCycle ==
  \A t \in TaskIds :
    (CycleEnded(t) /\ ~tasks[t].exc) =>
      /\ {delivered[i].key : i \in CycleDeliveries(t, tasks[t].cycle)} = tasks[t].newc
      /\ Cardinality(CycleDeliveries(t, tasks[t].cycle)) = Cardinality(tasks[t].newc)

\* An invocation that begins is for an id that is not in the seen set, with
\* hints['windows_id'] equal to that id.
C6_NewDelivery ==
  (platform = "win32" /\ Len(delivered') = Len(delivered) + 1) =>
    LET d == delivered'[Len(delivered')]
    IN /\ d.key \notin seen_ids
       /\ d.payload.hints.windows_id = d.key

\* C6, amended: a poll cycle that runs its for loop to the end invokes the
\* callback exactly once for each listed id that is not in the seen set and
\* converts to a payload, each time with hints['windows_id'] equal to the
\* native id; no cycle invokes the callback for an id the seen set holds.
C6_Amended == [][C6_CompletedCycle' /\ C6_NewDelivery]_vars

\* A completed cycle over a listing of two ids, one of them new, delivered once.
C6_Witness ==
  \E t \in TaskIds :
    /\ CycleEnded(t) /\ ~tasks[t].exc
    /\ Len(Listings[tasks[t].listing]) = 2
    /\ tasks[t].k = 1
    /\ Cardinality(CycleDeliveries(t, tasks[t].cycle)) = 1

\* Task t ends a cycle that had a listing in this step.
EndsCycle(t) ==
  /\ tasks[t].pc \in {"query", "callback"}
  /\ tasks'[t].pc = "sleep"
  /\ tasks'[t].listing # 0

\* The seen set as the step in which task t ends its cycle leaves it before
\* any clean-up: the ids of the rest of the for loop added when the loop runs
\* to its end, nothing added when the cycle ends in the except clause.
SeenAtEnd(t) ==
  LET L == Listings[tasks'[t].listing]
      from == IF tasks[t].pc = "query" THEN 1 ELSE tasks[t].idx + 1
  IN IF tasks'[t].exc THEN seen_ids
     ELSE seen_ids \cup {L[m] : m \in from .. Len(L)}

\* The seen set after the step is what the claim says of the end of a cycle.
ThresholdReset(t) ==
  seen_ids' = IF Cardinality(SeenAtEnd(t)) > SeenLimit
              THEN ListingIds(Listings[tasks'[t].listing])
              ELSE SeenAtEnd(t)

\* C7 as stated: at the end of a poll cycle, a seen set of more than 1000 ids
\* is replaced by exactly the ids of that cycle's listing, one of 1000 ids or
\* fewer is not reduced.
C7_ResetAtEveryCycleEnd ==
  [][\A t \in TaskIds : EndsCycle(t) => ThresholdReset(t)]_vars

\* What the code does keep of C7: at the end of a poll cycle whose for loop ran
\* to its end (no exception in the cycle), a seen set of more than 1000 ids is
\* replaced by exactly the ids of that cycle's listing, one of 1000 ids or
\* fewer is kept.
C7_Amended ==
  [][\A t \in TaskIds : (EndsCycle(t) /\ ~tasks'[t].exc) => ThresholdReset(t)]_vars

\* A clean-up has replaced the seen set by the listing and dropped a
\* delivered id.
C7_Witness ==
  \E t \in TaskIds :
    /\ CycleEnded(t) /\ ~tasks[t].exc
    /\ seen_ids = ListingIds(Listings[tasks[t].listing])
    /\ \E i \in 1 .. Len(delivered) : delivered[i].key \notin seen_ids

\* C8: an exception raised inside one poll cycle (by the query or by the
\* callback; conversion returns None instead) does not end the polling loop:
\* the task goes to its sleep, and a task that leaves the sleep while the
\* listener is running issues another query.
C8_ExceptionKeepsLoop ==
  [][\A t \in TaskIds :
       /\ (tasks[t].pc \in {"query", "callback"} /\ ~tasks[t].cancel
             /\ tasks'[t].pc \notin {"query", "callback"})
            => tasks'[t].pc = "sleep"
       /\ (tasks'[t].exc /\ tasks'[t] # tasks[t]) => tasks'[t].pc \in {"sleep", "query"}
       /\ (tasks[t].pc = "sleep" /\ ~tasks[t].cancel /\ tasks'[t].pc # "sleep"
             /\ running)
            => tasks'[t].pc = "query"]_vars

\* A cycle ended in the except clause and the task has issued its next query.
C8_Witness ==
  \E t \in TaskIds : tasks[t].pc = "query" /\ tasks[t].exc /\ running

\* The position of id in listing L.
Pos(L, id) == CHOOSE m \in 1 .. Len(L) : L[m] = id

\* C9: within one poll cycle the callback is invoked in the order of the
\* listing, one invocation at a time, and two poll cycles of the listener
\* never overlap.
C9_OrderedAndDisjointCycles ==
  /\ \A t \in TaskIds :
       tasks[t].listing # 0 =>
         \A i, j \in CycleDeliveries(t, tasks[t].cycle) :
           i < j => Pos(Listings[tasks[t].listing], delivered[i].key)
                      < Pos(Listings[tasks[t].listing], delivered[j].key)
  /\ Cardinality({t \in TaskIds : tasks[t].pc \in {"query", "callback"}}) <= 1
  /\ \A t \in TaskIds :
       tasks[t].pc = "callback" =>
         /\ delivered # <<>>
         /\ delivered[Len(delivered)].task = t
         /\ delivered[Len(delivered)].key = Listings[tasks[t].listing][tasks[t].idx]

\* The second invocation of a cycle is in progress, after the first.
C9_Witness ==
  \E t \in TaskIds :
    /\ tasks[t].pc = "callback"
    /\ Cardinality(CycleDeliveries(t, tasks[t].cycle)) = 2
    /\ ntasks = 2

\* stop() has returned: every poll task has terminated, nothing was raised and
\* the task reference is cleared.
C10_Returned ==
  (platform = "win32" /\ op = "idle" /\ lastCall = "stop") =>
    /\ \A t \in TaskIds : tasks[t].pc \notin Suspended
    /\ lastResult = "ok"
    /\ poll_task = 0

\* C10: stop() cancels the poll task and returns only after the task has
\* terminated, at whatever await the task was; the cancellation is not
\* propagated to the caller, and stop() eventually returns.
C10_StopAwaitsCancelledTask ==
  /\ []C10_Returned
  /\ (op = "stop") ~> (op = "idle")

\* stop() has returned after cancelling the task inside the callback.
C10_Witness ==
  /\ platform = "win32" /\ StoppedNow
  /\ \E t \in TaskIds : tasks[t].pc = "cancelled" /\ tasks[t].at = "callback"

\* C11: Windows: start() requests notification access exactly once; when the
\* status returned is anything other than ALLOWED, start() raises, no poll
\* task is created, no poll cycle can run and is_running is false; a start()
\* that returned normally made one request, which was granted.
C11_DeniedAccessRaises ==
  (platform = "win32" /\ op = "idle" /\ lastCall = "start") =>
    /\ access_requests <= 1
    /\ (access_status # "none") => access_requests = 1
    /\ (access_status \notin {"none", "allowed"}) =>
         /\ lastResult = "raised"
         /\ ~running
         /\ poll_task = 0
         /\ \A t \in TaskIds : tasks[t].pc \notin Suspended
    /\ lastResult = "ok" => (access_requests = 1 /\ access_status = "allowed")

\* A start() after a stopped session got a status that is neither ALLOWED nor
\* DENIED.
C11_Witness ==
  /\ platform = "win32" /\ op = "idle" /\ lastCall = "start"
  /\ access_status = "unspecified"
  /\ ntasks = 1 /\ tasks[1].pc = "cancelled"

\* C12: Linux: when connecting to the session bus fails, start() raises to
\* its caller, is_running is left as it was (false on a fresh or stopped
\* listener) and no connection is made, so no message handler is registered.
C12_ConnectFailurePropagates ==
  [][(platform = "linux" /\ op = "start" /\ oppc = "connect" /\ op' = "idle") =>
       /\ lastCall' = "start" /\ lastResult' = "raised"
       /\ running' = running
       /\ (ncalls = 1 \/ lastCall = "stop") => ~running'
       /\ bus' = bus /\ buses' = buses /\ nbuses' = nbuses
       /\ procs' = procs]_vars

\* The connection failed in a start() that followed a stopped session.
C12_Witness ==
  /\ platform = "linux" /\ op = "idle" /\ lastCall = "start" /\ lastResult = "raised"
  /\ ncalls = 3 /\ nbuses = 1 /\ buses[1].handler /\ ~running

\* A Notify method call with the eight arguments of the signature susssasa{sv}i.
ValidNotify(m) ==
  /\ IsNotify(Msgs[m])
  /\ Len(Msgs[m].body) >= 8
  /\ Msgs[m].body[7].mapping

\* The callback invocations made for the message of processing task p.
InvocationsFor(p) == {i \in 1 .. Len(delivered) : delivered[i].task = p}

\* The payload of invocation i has the fields of message m.
PayloadOfMessage(i, m) ==
  LET args == Msgs[m].body
      pl == delivered[i].payload
  IN /\ pl.app_name = args[1] /\ pl.summary = args[4] /\ pl.body = args[5]
     /\ pl.replaces_id = args[2] /\ pl.timeout = args[8] /\ pl.actions = args[6]

\* C13: Linux: every Notify method call with a valid 8-element argument list
\* that the handler receives leads to exactly one callback invocation, whose
\* payload has the app_name, summary, body, replaces_id, timeout and actions
\* of the message: one processing task per message; a task that has not run
\* can run, whatever the listener has done since; a task that has run has
\* made one invocation, and none makes more than one.
C13_ValidNotifyDelivered ==
  platform = "linux" =>
    /\ Len(procs) <= nmsgs
    /\ \A p \in 1 .. Len(procs) :
         ValidNotify(procs[p].msg) =>
           /\ Cardinality(InvocationsFor(p)) <= 1
           /\ procs[p].pc = "created" => ENABLED LinuxProcRun(p)
           /\ procs[p].pc # "created" => Cardinality(InvocationsFor(p)) = 1
           /\ \A i \in InvocationsFor(p) : PayloadOfMessage(i, procs[p].msg)

\* The second of two valid messages, one with hints and actions, was delivered.
C13_Witness ==
  /\ platform = "linux" /\ Len(procs) = 2
  /\ procs[1].msg = 1 /\ procs[2].msg = 2
  /\ procs[1].pc = "done" /\ procs[2].pc = "done"
  /\ Len(delivered) = 2

\* C14: Linux: for a Notify message with fewer than 8 arguments the callback
\* is not invoked and processing ends at the length test, with a warning and
\* no exception.
C14_ShortMessageDropped ==
  platform = "linux" =>
    \A p \in 1 .. Len(procs) :
      Len(Msgs[procs[p].msg].body) < 8 =>
        /\ InvocationsFor(p) = {}
        /\ procs[p].pc \in {"created", "done"}
        /\ procs[p].result \in {"none", "malformed"}

\* The processing of a short message has ended.
C14_Witness ==
  /\ platform = "linux"
  /\ \E p \in 1 .. Len(procs) :
       /\ Len(Msgs[procs[p].msg].body) < 8
       /\ procs[p].pc = "done" /\ procs[p].result = "malformed"

\* How the processing of a message ends when it does not end well.
Failures == {"malformed", "raised", "callback_raised"}

\* Processing task p ends in this step with a failure.
FailsNow(p) ==
  /\ p <= Len(procs)
  /\ procs[p].result = "none"
  /\ procs'[p].result \in Failures

\* Every valid message that arrived after one whose processing failed has
\* reached the callback once its task has run.
LaterStillDelivered ==
  \A p, q \in 1 .. Len(procs) :
    (p < q /\ procs[p].result \in Failures /\ ValidNotify(procs[q].msg)
       /\ procs[q].pc # "created")
      => InvocationsFor(q) # {}

\* C15: Linux: an exception raised while one message is processed (a value
\* that is no mapping in the hints loop, a callback that raises) ends the
\* processing of that message only: the running flag, the callback, the
\* connection with its handler and the other processing tasks are left as
\* they are, and later valid messages still reach the callback.
C15_FailureContained ==
  [][(platform = "linux" =>
        \A p \in 1 .. MaxMsgs :
          FailsNow(p) =>
            /\ running' = running /\ callback' = callback
            /\ bus' = bus /\ buses' = buses
            /\ \A q \in 1 .. Len(procs) : q # p => procs'[q] = procs[q])
     /\ LaterStillDelivered']_vars

\* The callback raised for the first message; the second message, which
\* arrived after it, has reached the callback and the listener is running.
C15_Witness ==
  /\ platform = "linux" /\ running /\ Len(procs) = 2
  /\ procs[1].result = "callback_raised"
  /\ procs[2].pc = "callback" /\ ~procs[2].late
  /\ \E b \in TaskIds : buses[b].connected /\ buses[b].handler

\* C16: forwarder: whatever status code the response has (201 or another),
\* forward() returns without raising and has issued exactly one POST.
C16_AnyStatusReturns ==
  \A i \in 1 .. Len(forwards) :
    /\ forwards[i].pc = "post" => forwards[i].posts = 1
    /\ forwards[i].reply.kind = "response" =>
         (forwards[i].pc = "returned" /\ forwards[i].posts = 1)

\* A forward() answered with 500 has returned, and so has one answered with 201.
C16_Witness ==
  /\ Len(forwards) = 2
  /\ forwards[1].reply = [kind |-> "response", status |-> 500]
  /\ forwards[2].reply = [kind |-> "response", status |-> 201]
  /\ forwards[2].pc = "returned"

\* C17: forwarder: when the POST raises an httpx.RequestError, forward()
\* returns without raising and issues no second POST.
C17_RequestErrorReturns ==
  \A i \in 1 .. Len(forwards) :
    forwards[i].reply.kind = "request_error" =>
      (forwards[i].pc = "returned" /\ forwards[i].posts = 1 /\ forwards[i].log = "error")

\* The POST of a forward() raised a RequestError and the next forward() has
\* begun.
C17_Witness ==
  /\ Len(forwards) = 2
  /\ forwards[1].reply.kind = "request_error"
  /\ forwards[2].pc = "post"

\* Forward number i ends in this step.
ForwardEnds(i) ==
  /\ i <= Len(forwards)
  /\ forwards[i].pc = "post"
  /\ forwards'[i].pc \in {"returned", "raised"}

\* The listener can take up the next notification: a poll task in its sleep
\* can go on to the next query, a connected bus can hand over a message.
CanGoOn ==
  /\ \A t \in TaskIds :
       (tasks[t].pc = "sleep" /\ ~tasks[t].cancel /\ running /\ ncycles < MaxCycles)
         => ENABLED SleepDone(t)
  /\ \A b \in TaskIds :
       (buses[b].connected /\ buses[b].handler /\ nmsgs < MaxMsgs)
         => ENABLED LinuxBusMessage(b)

\* C18: bridge service: a notification whose processing or forwarding fails
\* (short message, conversion failure, status other than 201, transport
\* error, another exception out of forward) does not stop the service: the
\* step in which it fails leaves the running flag and the callback as they
\* are, the poll task in its loop (Windows), the connection, its handler and
\* the other processing tasks untouched (Linux), and the listener can take up
\* the next notification.
C18_FailureKeepsService ==
  /\ []CanGoOn
  /\ [][/\ \A i \in 1 .. MaxForwards :
             ForwardEnds(i) =>
               /\ running' = running /\ callback' = callback
               /\ platform = "win32" =>
                    /\ tasks'[delivered[i].task].pc \in {"callback", "sleep"}
                    /\ poll_task' = poll_task
               /\ platform = "linux" =>
                    /\ bus' = bus /\ buses' = buses
                    /\ \A q \in 1 .. Len(procs) :
                         q # delivered[i].task => procs'[q] = procs[q]
        /\ \A p \in 1 .. MaxMsgs :
             (platform = "linux" /\ FailsNow(p)) =>
               /\ running' = running /\ callback' = callback
               /\ bus' = bus /\ buses' = buses
        /\ \A t \in TaskIds :
             (tasks[t].pc = "query" /\ ~tasks[t].cancel /\ tasks'[t].pc # "query") =>
               /\ tasks'[t].pc \in {"callback", "sleep"}
               /\ running' = running]_vars

\* Windows: forward raised for a notification of one cycle, and a notification
\* of a later cycle was forwarded and answered with 201 while the listener is
\* running.
C18_Witness ==
  /\ platform = "win32" /\ running /\ Len(forwards) = 2
  /\ forwards[1].pc = "raised"
  /\ forwards[2].pc = "returned" /\ forwards[2].reply.status = 201
  /\ delivered[1].cycle < delivered[2].cycle

\* The forward() calls in progress.
InProgress == {i \in 1 .. Len(forwards) : forwards[i].pc = "post"}

\* C19 as stated: for both listeners at most one forward is in progress, and
\* while it is the listener begins no further callback invocation.
C19_OneForwardAtATime ==
  /\ Cardinality(InProgress) <= 1
  /\ \A i \in InProgress : i = Len(forwards)

\* C19, amended: Windows: while a forward is in progress the poll task is
\* suspended in it and begins no further invocation, so at most one forward
\* is in progress.  Linux: the processing task of a message is suspended
\* while its forward is in progress and makes no second one; the message
\* handler is not held up and other messages' forwards may be in progress.
C19_Amended ==
  /\ platform = "win32" =>
       /\ Cardinality(InProgress) <= 1
       /\ \A i \in InProgress :
            /\ i = Len(forwards)
            /\ tasks[delivered[i].task].pc = "callback"
            /\ \A t \in TaskIds : t # delivered[i].task => tasks[t].pc \notin {"query", "callback"}
  /\ platform = "linux" =>
       /\ \A i \in InProgress : procs[delivered[i].task].pc = "callback"
       /\ \A i, j \in 1 .. Len(forwards) :
            i # j => delivered[i].task # delivered[j].task

\* Windows: the forward of the first of two new notifications of a listing is
\* in progress; the second one waits.
C19_Witness ==
  /\ platform = "win32"
  /\ \E t \in TaskIds :
       /\ tasks[t].pc = "callback" /\ tasks[t].idx = 1
       /\ Listings[tasks[t].listing] = <<1, 2>>
       /\ InProgress = {Len(forwards)}

\* C20: forwarder: two sequential forward() calls for the same payload never
\* derive the same name, the clock being read at microsecond resolution and
\* not moving backwards.
C20_DistinctNames ==
  \A i, j \in 1 .. Len(forwards) :
    (i < j /\ forwards[i].payload = forwards[j].payload)
      => forwards[i].name # forwards[j].name

\* C21: the name forward() derives is the app name with every character that
\* is not alphanumeric replaced by one underscore and every alphanumeric one
\* kept in its place, then an underscore, then the timestamp of the reading
\* of the clock the call made; no character of it is other than alphanumeric or underscore.
C21_NameIsSanitized ==
  \A i \in 1 .. Len(forwards) :
    LET cs == Chars(forwards[i].payload.app_name)
        nm == forwards[i].name
    IN /\ Len(nm) > Len(cs)
       /\ \A k \in 1 .. Len(cs) :
            nm[k] = IF cs[k] \in Alnum THEN cs[k] ELSE "_"
       /\ nm[Len(cs) + 1] = "_"
       /\ SubSeq(nm, Len(cs) + 2, Len(nm)) = Timestamp(forwards[i].at)
       /\ \A k \in 1 .. Len(nm) :
            nm[k] \in Alnum \cup {"_"} /\ nm[k] \notin {"(", ")", ".", " "}

\* A forward() of a notification of the app "My App (v2.0)" has returned.
C21_Witness ==
  \E i \in 1 .. Len(forwards) :
    /\ forwards[i].payload.app_name = "My App (v2.0)"
    /\ forwards[i].pc = "returned"
    /\ SubSeq(forwards[i].name, 1, 14)
         = <<"M", "y", "_", "A", "p", "p", "_", "_", "v", "2", "_", "0", "_", "_">>

\* C24: every forward() issues one POST to the configured base URL followed by
\* "/content"; the bucket of its body is the configured bucket, its
\* content_type is "application/json", its name is the derived name, its
\* description holds the app name and the summary of the payload, and its
\* content decodes to the fields of the payload, each with its value.
C24_RequestCarriesPayload ==
  \A i \in 1 .. Len(forwards) :
    LET f == forwards[i]
        body == f.request.json
        decoded == JsonLoads(body.content)
        fields == {PayloadFields[k] : k \in 1 .. Len(PayloadFields)}
    IN /\ f.posts >= 1
       /\ f.request.method = "POST"
       /\ Len(f.request.url) = 2
       /\ f.request.url[1] = settings.central_context_url
       /\ f.request.url[2] = "/content"
       /\ body.bucket = settings.bucket_name
       /\ body.content_type = "application/json"
       /\ body.name = f.name
       /\ \E j, k \in 1 .. Len(body.description) :
            /\ j < k
            /\ body.description[j] = f.payload.app_name
            /\ body.description[k] = f.payload.summary
       /\ DOMAIN decoded = fields
       /\ \A key \in fields : decoded[key] = f.payload[key]

\* A forwarder built with a URL and a bucket other than the defaults has
\* forwarded the payload of the Notify call of "TestApp".
C24_Witness ==
  \E i \in 1 .. Len(forwards) :
    /\ settings # DefaultSettings
    /\ forwards[i].pc = "returned"
    /\ forwards[i].payload = Payloads[1]
    /\ forwards[i].request.url = <<"http://context.test:8000", "/content">>
    /\ forwards[i].request.json.bucket = "test-notifications"
    /\ forwards[i].request.json.description
         = <<"Notification from ", "TestApp", ": ", "Summary">>

\* C22: get_listener returns a Linux listener when the platform identifier is
\* "linux", a Windows listener when it is "win32", and raises a RuntimeError
\* whose message is "Unsupported platform: " followed by the identifier for
\* every other one; every listener returned is a new object that is not
\* running and has no callback.
C22_SelectorByPlatform ==
  /\ \A id \in PlatformIds : id \in Platforms <=> GetListener(id, 1).kind # "RuntimeError"
  /\ \A i \in 1 .. Len(selected) :
       LET id == selected[i].platform
           r == selected[i].result
       IN /\ id = "linux" => r.kind = "LinuxListener"
          /\ id = "win32" => r.kind = "WindowsListener"
          /\ id \notin {"linux", "win32"} =>
               /\ r.kind = "RuntimeError"
               /\ r.message = <<"Unsupported platform: ", id>>
          /\ r.kind # "RuntimeError" =>
               /\ ~r.running /\ ~r.callback
               /\ \A j \in 1 .. Len(selected) :
                    j # i /\ selected[j].result.kind # "RuntimeError"
                      => selected[j].result.instance # r.instance

\* get_listener was called on "linux", then twice on "win32" and on "darwin"
\* in some order.
C22_Witness ==
  /\ Len(selected) = 3
  /\ selected[1].result.kind = "LinuxListener"
  /\ \E i, j \in 2 .. 3 :
       /\ selected[i].platform = "win32"
       /\ selected[i].result.kind = "WindowsListener"
       /\ selected[j].platform = "darwin"
       /\ selected[j].result.message = <<"Unsupported platform: ", "darwin">>

\* A step in which the caller calls start(), and one in which it calls stop().
StartIsCalled ==
  /\ ncalls' = ncalls + 1
  /\ op' = "start" \/ (op' = "idle" /\ lastCall' = "start")
StopIsCalled ==
  /\ ncalls' = ncalls + 1
  /\ op' = "stop" \/ (op' = "idle" /\ lastCall' = "stop")

\* C23: the lifespan of the bridge service calls start() once, as its first
\* call, with a callback that passes every payload it is invoked with to
\* forward(); it calls stop() at most once, as its second call, when start()
\* has returned without raising and no operation is in progress.
C23_LifespanStartsAndStopsOnce ==
  /\ [](/\ ncalls <= 2
        /\ Len(forwards) = Len(delivered)
        /\ \A i \in 1 .. Len(delivered) : forwards[i].payload = delivered[i].payload)
  /\ [][/\ StartIsCalled => ncalls = 0
        /\ StopIsCalled =>
             /\ ncalls = 1
             /\ op = "idle" /\ lastCall = "start"
             /\ lastResult \in {"ok", "soft_fail"}
        /\ ncalls' # ncalls => StartIsCalled \/ StopIsCalled]_vars

\* The service has shut down: start() and stop() have both returned, and a
\* payload was forwarded in between.
C23_Witness ==
  /\ ncalls = 2 /\ op = "idle" /\ lastCall = "stop"
  /\ Len(forwards) >= 1 /\ forwards[1].pc = "returned"

\* C25: the message handler returns False for every message, schedules a
\* processing task only for a method call on org.freedesktop.Notifications
\* with member Notify, and returns before that task has run: the step of the
\* handler leaves the earlier tasks, the callback invocations and the forward
\* calls as they are, and the task it schedules has not started.
C25_HandlerNeverConsumes ==
  /\ [](/\ consumed = 0
        /\ \A m \in 1 .. Len(Msgs) : HandleMessage(Msgs[m]).returns = FALSE
        /\ \A p \in 1 .. Len(procs) :
             /\ Msgs[procs[p].msg].message_type = "method_call"
             /\ Msgs[procs[p].msg].interface = "org.freedesktop.Notifications"
             /\ Msgs[procs[p].msg].member = "Notify")
  /\ [][nmsgs' # nmsgs =>
          /\ nmsgs' = nmsgs + 1
          /\ Len(procs') \in {Len(procs), Len(procs) + 1}
          /\ \A p \in 1 .. Len(procs) : procs'[p] = procs[p]
          /\ Len(procs') > Len(procs) => procs'[Len(procs')].pc = "created"
          /\ delivered' = delivered /\ forwards' = forwards
          /\ consumed' = consumed]_vars

\* The handler was called for two messages and scheduled processing for one
\* of them only, which has not run yet.
C25_Witness ==
  /\ platform = "linux" /\ nmsgs = 2 /\ Len(procs) = 1
  /\ procs[1].pc = "created" /\ consumed = 0

\* C26: the processing tasks of distinct messages overlap: while the callback
\* invocation of one task is suspended, a task created later (or earlier) can
\* begin its own invocation, and an invocation in progress can complete,
\* whatever the other tasks are at; each task goes once through its steps, in
\* order, with at most one callback invocation.
C26_ProcessingOverlaps ==
  /\ [](\A p \in 1 .. Len(procs) :
          /\ Cardinality(InvocationsFor(p)) <= 1
          /\ procs[p].pc = "created" => InvocationsFor(p) = {}
          /\ procs[p].pc = "callback" => Cardinality(InvocationsFor(p)) = 1
          /\ (/\ procs[p].pc = "created" /\ callback
              /\ ValidNotify(procs[p].msg) /\ Len(forwards) < MaxForwards)
               => ENABLED LinuxProcRun(p)
          /\ procs[p].pc = "callback" => ENABLED LinuxCallbackDone(p))
  /\ [][\A p \in 1 .. Len(procs) :
          procs'[p] # procs[p] =>
            /\ procs'[p].msg = procs[p].msg
            /\ \/ procs[p].pc = "created" /\ procs'[p].pc \in {"callback", "done"}
               \/ procs[p].pc = "callback" /\ procs'[p].pc = "done"]_vars

\* The invocation for the first message began first and is still suspended
\* in its forward; the one for the second message has completed.
C26_Witness ==
  /\ Len(procs) = 2
  /\ procs[1].pc = "callback" /\ procs[2].pc = "done"
  /\ procs[2].result = "returned"
  /\ delivered[1].task = 1 /\ delivered[2].task = 2
  /\ forwards[1].pc = "post" /\ forwards[2].pc = "returned"

\* The callback invocation that begins in this step, if one does.
Begun == delivered'[Len(delivered')]

\* C27: an id leaves the seen set only in a step that ends a cycle whose for
\* loop ran to its end with more than 1000 ids in the seen set and whose
\* listing does not contain the id; an invocation begins only for an id that
\* is not in the seen set and is in the listing of the cycle, and leaves it in
\* the seen set.  Hence between two invocations for one id lie such a reset
\* and a later listing with the id; they are in different cycles.
C27_RedeliveryOnlyAfterReset ==
  /\ [](\A i, j \in 1 .. Len(delivered) :
          (i < j /\ delivered[i].key = delivered[j].key)
            => delivered[i].cycle < delivered[j].cycle)
  /\ [][/\ seen_ids \ seen_ids' # {} =>
             \E t \in TaskIds :
               /\ EndsCycle(t) /\ ~tasks'[t].exc
               /\ Cardinality(SeenAtEnd(t)) > SeenLimit
               /\ (seen_ids \ seen_ids') \cap ListingIds(Listings[tasks'[t].listing]) = {}
               /\ seen_ids' = ListingIds(Listings[tasks'[t].listing])
        /\ Len(delivered') \in {Len(delivered), Len(delivered) + 1}
        /\ Len(delivered') = Len(delivered) + 1 =>
             /\ Begun.key \notin seen_ids
             /\ Begun.key \in seen_ids'
             /\ Begun.cycle = tasks'[Begun.task].cycle
             /\ Begun.key \in ListingIds(Listings[tasks'[Begun.task].listing])]_vars

\* One poll task has invoked the callback twice for the same id, and the
\* listener was started once and not stopped.
C27_Witness ==
  /\ ncalls = 1 /\ ntasks = 1
  /\ \E i, j \in 1 .. Len(delivered) :
       /\ i < j
       /\ delivered[i].key = delivered[j].key
       /\ delivered[i].task = delivered[j].task

\* C28: an id that every listing since the first one with it has contained
\* has at most one callback invocation, whatever resets of the seen set and
\* cycles ended by an exception there were.
C28_SteadyIdDeliveredOnce ==
  \A i, j \in 1 .. Len(delivered) :
    (i < j /\ delivered[i].key = delivered[j].key)
      => delivered[i].key \notin steady

\* Id 2 was delivered once and listed again in the cycle after the one that
\* reset the seen set (id 3 was listed, and is no longer in the seen set).
C28_Witness ==
  /\ 2 \in steady /\ 3 \in listed /\ 3 \notin seen_ids
  /\ Cardinality({i \in 1 .. Len(delivered) : delivered[i].key = 2}) = 1
  /\ \E t \in TaskIds :
       /\ CycleEnded(t) /\ ~tasks[t].exc
       /\ 2 \in ListingIds(Listings[tasks[t].listing])
       /\ \A i \in 1 .. Len(delivered) : delivered[i].cycle < tasks[t].cycle

\* C29: the for loop adds the id of a notification to the seen set before
\* its conversion and its callback: whatever step a poll task takes, every id
\* its for loop has come to is in the seen set after it, also when the
\* conversion yields no payload, the callback raises or stop() cancels the
\* task in the callback; and no invocation begins for an id in the seen set.
C29_SeenBeforeCallback ==
  /\ [](\A t \in TaskIds :
          tasks[t].pc = "callback" =>
            Listings[tasks[t].listing][tasks[t].idx] \in seen_ids)
  /\ [][/\ \A t \in TaskIds :
             /\ (tasks'[t] # tasks[t] /\ tasks'[t].listing # 0) =>
                  LET L == Listings[tasks'[t].listing]
                  IN \A m \in 1 .. Min(tasks'[t].idx, Len(L)) : L[m] \in seen_ids'
             /\ (tasks[t].pc = "callback" /\ tasks'[t].pc \in {"sleep", "cancelled"}
                   /\ (tasks'[t].exc \/ tasks'[t].pc = "cancelled")) =>
                  /\ Listings[tasks[t].listing][tasks[t].idx] \in seen_ids'
                  /\ seen_ids' = seen_ids
        /\ Len(delivered') = Len(delivered) + 1 => Begun.key \notin seen_ids]_vars

\* stop() cancelled the first poll task in the callback for id 1; after a
\* second start() a cycle whose listing has id 1 ran to its end, and there is
\* still one invocation only.
C29_Witness ==
  /\ Len(delivered) = 1 /\ delivered[1].key = 1
  /\ tasks[delivered[1].task].pc = "cancelled"
  /\ tasks[delivered[1].task].at = "callback"
  /\ \E t \in TaskIds :
       /\ t # delivered[1].task
       /\ CycleEnded(t) /\ ~tasks[t].exc
       /\ 1 \in ListingIds(Listings[tasks[t].listing])

\* C30 as stated: every new notification that a raising callback made the
\* loop skip is delivered in the next cycle whose listing contains it.
C30_SkippedDeliveredNext ==
  \A t \in TaskIds :
    (CycleEnded(t) /\ tasks[t].cycle = due.cycle) =>
      \A x \in due.ids :
        \E i \in CycleDeliveries(t, tasks[t].cycle) : delivered[i].key = x

\* C30, amended: the step in which the callback raises ends the cycle where
\* it is (no further notification of the listing, no clean-up, the seen set
\* as it was); the new notifications after it stay out of the seen set until
\* a listing contains them again, and the cycle of that listing delivers
\* those that convert to a payload and that its for loop comes to.
C30_Amended ==
  /\ [](/\ owed \cap seen_ids = {}
        /\ \A t \in TaskIds :
             (CycleEnded(t) /\ tasks[t].cycle = due.cycle) =>
               LET L == Listings[tasks[t].listing]
                   reached == IF tasks[t].exc THEN tasks[t].idx ELSE Len(L)
               IN \A m \in 1 .. reached :
                    (L[m] \in due.ids /\ L[m] \in Convertible) =>
                      \E i \in CycleDeliveries(t, tasks[t].cycle) :
                        delivered[i].key = L[m])
  /\ [][\A t \in TaskIds :
          (tasks[t].pc = "callback" /\ tasks'[t].pc = "sleep" /\ tasks'[t].exc) =>
            /\ seen_ids' = seen_ids
            /\ delivered' = delivered
            /\ tasks'[t].idx = tasks[t].idx
            /\ LaterNew(t) \subseteq owed']_vars

\* The callback raised for id 1 of the listing 1, 2, 3; the next cycle found
\* id 2 new and delivered it, and ran to its end.
C30_Witness ==
  \E t \in TaskIds :
    /\ CycleEnded(t) /\ ~tasks[t].exc
    /\ tasks[t].cycle = due.cycle /\ 2 \in due.ids
    /\ \E i \in CycleDeliveries(t, tasks[t].cycle) : delivered[i].key = 2
    /\ \E i \in 1 .. Len(delivered) :
         delivered[i].key = 1 /\ delivered[i].cycle < tasks[t].cycle

\* C31 as stated: when a poll cycle has ended, by the end of its for loop or
\* by an exception, the seen set holds at most as many ids as the greater of
\* 1000 and the number of ids of the listing of the cycle (none when the
\* query raised).
C31_SeenSetBounded ==
  \A t \in TaskIds :
    tasks[t].pc = "sleep" =>
      LET n == IF tasks[t].listing = 0 THEN 0
               ELSE Cardinality(IdSets[tasks[t].listing])
      IN Cardinality(seen_ids) <= (IF n > SeenLimit THEN n ELSE SeenLimit)

\* C32 as stated, its safety half: whenever is_running is true there is a
\* poll task that has not terminated.
C32_RunningMeansPolling ==
  running => (poll_task # 0 /\ tasks[poll_task].pc \notin Terminated)

\* The one stop() that follows the two start() calls has returned.
StoppedAfterTwoStarts == ncalls = 3 /\ op = "idle" /\ lastCall = "stop"

\* C33 as stated: start() called twice with no stop() between, then stop()
\* once; when that stop() has returned nothing of the listener can invoke the
\* callback any more: no poll task is left suspended in a cycle (Windows), and
\* no bus is left connected with the message handler registered (Linux).
C33_NothingLeftBehind ==
  StoppedAfterTwoStarts =>
    /\ \A t \in TaskIds : tasks[t].pc \notin {"query", "callback"}
    /\ \A b \in TaskIds : ~(buses[b].connected /\ buses[b].handler)

\* C34 as stated, its second half: no forward() call issues its request on
\* the HTTP client after the client has been closed.
C34_NoRequestOnClosedClient ==
  \A i \in 1 .. Len(forwards) : ~forwards[i].closed

\* The hints mapping of the Notify call number m (its 7th argument).
HintsOf(m) == Msgs[m].body[7]

\* C35: Linux: the hints of a payload have exactly the keys of the hints
\* mapping of the message; the value of each is the unwrapped value of the
\* hint when JSON can represent it and the textual form of the hint when not;
\* and a processing task that has run for a well-formed Notify call has
\* invoked the callback, whatever its hints hold.
C35_HintsKeptAndSerializable ==
  platform = "linux" =>
    /\ \A i \in 1 .. Len(delivered) :
         LET h == HintsOf(delivered[i].key)
             ph == delivered[i].payload.hints
         IN /\ DOMAIN ph = {h.items[j].key : j \in 1 .. Len(h.items)}
            /\ \A j \in 1 .. Len(h.items) :
                 ph[h.items[j].key] = IF h.items[j].jsonable
                                      THEN h.items[j].value
                                      ELSE h.items[j].str
    /\ \A p \in 1 .. Len(procs) :
         (procs[p].pc # "created" /\ ValidNotify(procs[p].msg) /\ callback)
           => InvocationsFor(p) # {}

\* A Notify call with a hint JSON cannot represent (image-data, raw bytes) has
\* been delivered; its payload holds the three hints of the message.
C35_Witness ==
  /\ platform = "linux"
  /\ \E i \in 1 .. Len(delivered) :
       /\ \E j \in 1 .. Len(HintsOf(delivered[i].key).items) :
            ~HintsOf(delivered[i].key).items[j].jsonable
       /\ Cardinality(DOMAIN delivered[i].payload.hints) = 3
       /\ delivered[i].payload.hints["image-data"] = "<Variant ('ay', bytes)>"
       /\ delivered[i].payload.hints["urgency"] = "1"

\* C36 as stated: the conversion of a notification whose payload can be built
\* yields a payload whatever the reading of the display name and the text
\* extraction do: app name "Unknown" when the name cannot be read, summary
\* and body empty when the extraction fails, replaces_id 0, timeout -1, empty
\* icon and hints.windows_id the native id; no payload is yielded only when
\* the payload cannot be built.
C36_ConversionFallsBack ==
  \A i \in 1 .. Len(converted) :
    LET n == converted[i].native
        r == converted[i].result
    IN IF n.valid
       THEN /\ r # None
            /\ r.app_name = (IF n.display \in {"", "<raise>"} THEN "Unknown"
                             ELSE n.display)
            /\ ~n.textsOk => (r.summary = "" /\ r.body = "")
            /\ r.replaces_id = 0 /\ r.timeout = -1 /\ r.icon = ""
            /\ r.hints.windows_id = n.id
       ELSE r = None

\* C23 as stated, its shutdown half: when the lifespan has been left after a
\* start() that returned, stop() has been called.
C23_StopCalledOnShutdown ==
  aborted => (op = "stop" \/ lastCall = "stop")

====
